---------------------------- MODULE Spec2Model ----------------------------
(***************************************************************************)
(* Counterfactual data synthesis: the simulate / perturb / label loop.     *)
(*                                                                         *)
(*   Spec        the pipeline rollout of tools/run_pipeline.py: the loop   *)
(*               of Simulator.rollout driving control_with_recovery,       *)
(*               perturb_fn and the speed update of bicycle_model.step.    *)
(*                                                                         *)
(*   SpecLabel   one call of Labeler.compute on a list of sim frames, a     *)
(*               list of scenario frames and a map, followed by a second   *)
(*               call on a permutation of the sim frames.                  *)
(*                                                                         *)
(*   SpecSample  calls of PerturbationFactory.sample on two factories built  *)
(*               from one config.                                          *)
(*                                                                         *)
(*   SpecStep    one call of bicycle_model.step.                           *)
(*                                                                         *)
(*   SpecPair    two invocations of main whose rollouts take their steps   *)
(*               in any order.                                             *)
(*                                                                         *)
(*   SpecMain    one invocation of main, from loader.load to               *)
(*               writer.write_scene.                                       *)
(*                                                                         *)
(*   SpecMap     construction of SceneLoader and MapAPI objects and the    *)
(*               calls made on them.                                       *)
(*                                                                         *)
(*   SpecSim     Simulator.rollout with a control_fn of the caller, the    *)
(*               pose included, followed by Labeler.compute on its frames. *)
(*                                                                         *)
(*   SpecPid     step and reset calls on one PIDController.                *)
(*                                                                         *)
(*   SpecErr     one call of _compute_errors, by control_fn or by          *)
(*               Labeler.compute, and what the caller does with the result.*)
(*                                                                         *)
(* Units.  Time is counted in seconds and every time of a run (dt,         *)
(* start_t, duration, window_sec) is a whole number of them, so the sums   *)
(* t + dt are exact.  cte is in 0.1 m, heading_err in 0.1 rad, steer in    *)
(* 0.01 rad, speed in m/s, acceleration in m/s^2.                          *)
(*                                                                         *)
(* The pose (x, y, yaw) is integrated with cos/sin/tan and then projected  *)
(* on the map's centerline; Spec and SpecPair do not compute it.  What the *)
(* controller reads from it, (cte, heading_err), is an input of each step, *)
(* drawn from ErrInputs; so is the output of the IDM law.  SpecSim         *)
(* integrates the pose along straight runs, and SpecErr projects poses on  *)
(* centerlines.                                                            *)
(***************************************************************************)
EXTENDS Integers, Sequences, FiniteSets, TLC

VARIABLES
    \* ---- Simulator.rollout (src/src/cfdg/sim/rollout.py) ----
    pc,                 \* "loop": inside the for loop; "done": returned
    steps,              \* argument steps
    dt,                 \* argument dt
    t,                  \* local t
    state_v,            \* state.v of the local state
    perturb_fn_given,   \* argument perturb_fn is not None
    frames,             \* the list frames, each frame as [t, perturb_on]
    last,               \* the SimFrame appended last, in full
    \* ---- closure of main (src/tools/run_pipeline.py) ----
    perturb,            \* the sampled Perturbation
    recover_min_frames, \* recover_min_frames
    recover_window,     \* recover_window
    recover_active,     \* nonlocal recover_active
    recover_ok_frames,  \* nonlocal recover_ok_frames
    pid_prev_error,     \* pid._prev_error
    \* ---- history of the run, read by the properties only ----
    ctrl_calls,         \* number of calls of control_fn so far
    good_since_entry,   \* consecutive good frames since RECOVERING was entered
    exited_now,         \* the last step went from RECOVERING back to NORMAL
    \* ---- Labeler.compute (src/src/cfdg/label/labeler.py) ----
    lab_pc,             \* "idle" | "start" | "loop" | "returned" | "compared"
    sim_frames,         \* argument sim_frames
    scenario_frames,    \* argument scenario_frames
    idx,                \* loop index idx (frames processed so far)
    collision,          \* local collision
    off_road,           \* local off_road
    min_ttc,            \* local min_ttc, an exact fraction (den = 0: +inf)
    recovered,          \* local recovered
    labels,             \* the Labels returned
    perm,               \* the permutation of the second call
    labels_perm,        \* Labels of compute(permuted sim_frames, scenario_frames)
    labels_joint,       \* Labels of compute(permuted sim_frames, permuted scenario_frames)
    \* ---- PerturbationFactory (src/src/cfdg/perturb/perturbation.py) ----
    factory_config,     \* self.config of each factory
    rng,                \* state of the generator object created last
    calls,              \* the calls of sample so far: factory, scene_token, seed, result
    \* ---- bicycle_model.step (src/src/cfdg/sim/bicycle_model.py) ----
    bm_pc,              \* "idle" | "called" | "returned"
    bm_state,           \* argument state, the caller's VehicleState object
    bm_steer,           \* argument steer
    bm_accel,           \* argument accel
    bm_dt,              \* argument dt
    bm_params,          \* argument params
    bm_result,          \* the VehicleState returned
    \* ---- two invocations of main, their rollouts under way ----
    ro,                 \* per rollout: its inputs, locals and closure state
    pid_heap,           \* the PIDController objects: _prev_error of each
    order,              \* the rollouts in the order their steps were taken
    \* ---- one invocation of main (src/tools/run_pipeline.py) ----
    m_in,               \* the scenario the provider returns and cfg.raw
    mn,                 \* main's position, locals and effects so far
    \* ---- SceneLoader and MapAPI objects (scene_loader.py, map_api.py) ----
    backend,            \* the map object the map_provider returns
    has_shapely,        \* shapely can be imported
    objs,               \* the SceneLoader and MapAPI objects that exist
    last_call,          \* the last constructor or method call and its outcome
    \* ---- Simulator.rollout called with a control_fn of the caller ----
    sim_call,           \* the arguments and locals of the call, and its frames
    \* ---- a PIDController object (src/src/cfdg/control/pid.py) ----
    pid_obj,            \* cfg, _integral, _prev_error and the calls made on it
    \* ---- _compute_errors called by control_fn or by Labeler.compute ----
    err_call            \* the arguments, the errors returned, what the caller did

simVars == <<pc, steps, dt, t, state_v, perturb_fn_given, frames, last>>
ctlVars == <<perturb, recover_min_frames, recover_window, recover_active,
             recover_ok_frames, pid_prev_error>>
histVars == <<ctrl_calls, good_since_entry, exited_now>>
labVars == <<lab_pc, sim_frames, scenario_frames, idx, collision, off_road,
             min_ttc, recovered, labels, perm, labels_perm, labels_joint>>
smpVars == <<factory_config, rng, calls>>
bmVars == <<bm_pc, bm_state, bm_steer, bm_accel, bm_dt, bm_params, bm_result>>
\* the variables of the operations added after the three above
mapVars == <<backend, has_shapely, objs, last_call>>
lateVars == <<sim_call, pid_obj, err_call>>
restVars == <<bmVars, ro, pid_heap, order, m_in, mn, mapVars, lateVars>>
vars == <<simVars, ctlVars, histVars, labVars, smpVars, restVars>>

Abs(x) == IF x < 0 THEN -x ELSE x
Min(a, b) == IF a <= b THEN a ELSE b
Max(a, b) == IF a >= b THEN a ELSE b

---------------------------------------------------------------------------
(* Bounds and input domains *)

MaxSteps == 4
MaxFrames == 2
MaxCalls == 2
MaxPairSteps == 2
MaxObjects == 2
MaxSimSteps == 3
MaxPidCalls == 3

StepsVals == 0 .. MaxSteps
DtVals == {1, 2}
StartVals == {0, 1}
DurationVals == {0, 2}
WindowVals == {0, 2}
MinFramesVals == {1, 2}
InitSpeeds == {7}
\* <<cte, heading_err>> as _compute_errors may return them: within the
\* tolerances, between tolerance and threshold, and beyond a threshold
ErrInputs == {<<0, 0>>, <<-2, 1>>, <<5, 0>>, <<-9, 0>>, <<0, 3>>}
\* what idm.step may return
IdmAccelVals == {-2, 1}
\* steer_delta (0.01 rad) and acc_delta of the sampled perturbation
SteerDeltaVals == {5}
AccDeltaVals == {1}

---------------------------------------------------------------------------
(* Program constants (config defaults of main) *)

recover_cte == 8        \* cte_threshold 0.8
recover_yaw == 2        \* yaw_threshold 0.2
recover_gain == 2       \* pid_gain_scale 2.0
recover_speed == 6      \* desired_speed_recover 6.0
eps_cte == 3            \* label.eps_cte 0.3
eps_yaw == 1            \* label.eps_yaw 0.1
pid_kp == 12            \* kp 1.2, in tenths
pid_kd == 2             \* kd 0.2, in tenths
a_min == -6
a_max == 3

---------------------------------------------------------------------------
(* control_fn, perturb_fn, control_with_recovery *)

\* PIDController.step with ki = 0.0 (the default of main): kp*e + kd*(e - prev)/dt
PID_step(error, prev, d) ==
    pid_kp * error + (IF d > 0 THEN (pid_kd * (error - prev)) \div d ELSE 0)

\* an overlay that ends one instant early
perturb_active_EndExclusive(p, tt) ==
    p.start_t <= tt /\ tt < p.start_t + p.duration

\* line 235: on, for the Perturbation p
perturb_active(p, tt) ==
    p.start_t <= tt /\ tt <= p.start_t + p.duration

\* lines 234-239, for the Perturbation p
perturb_overlay(p, tt, steer, accel) ==
    IF perturb_active(p, tt)
    THEN [steer |-> steer + p.steer_delta,
          accel |-> accel + p.acc_delta, on |-> TRUE]
    ELSE [steer |-> steer, accel |-> accel, on |-> FALSE]

\* perturb_fn: the additive overlay while start_t <= t <= start_t + duration
perturb_on_at(tt) == perturb_active(perturb, tt)

perturb_fn(tt, steer, accel) == perturb_overlay(perturb, tt, steer, accel)

\* entry only when both errors exceed their thresholds
OverThreshold_Both(cte, heading_err) ==
    Abs(cte) > recover_cte /\ Abs(heading_err) > recover_yaw

\* line 245: the error thresholds
OverThreshold(cte, heading_err) ==
    Abs(cte) > recover_cte \/ Abs(heading_err) > recover_yaw

\* a window that also covers the perturbation itself
InForcedWindow_FromStart(tt) ==
    /\ perturb.start_t <= tt
    /\ tt <= perturb.start_t + perturb.duration + recover_window

\* a window that ends with the perturbation
InForcedWindow_NoTrail(tt) ==
    /\ perturb.start_t + perturb.duration <= tt
    /\ tt <= perturb.start_t + perturb.duration

\* line 247: the trailing window
InForcedWindow(tt) ==
    /\ perturb.start_t + perturb.duration <= tt
    /\ tt <= perturb.start_t + perturb.duration + recover_window

\* line 247, for the Perturbation p and the window w
forced_window(p, w, tt) ==
    p.start_t + p.duration <= tt /\ tt <= p.start_t + p.duration + w

\* line 257: a good frame
GoodFrame(cte, heading_err) ==
    Abs(cte) <= eps_cte /\ Abs(heading_err) <= eps_yaw

\* a counter that a bad frame leaves as it is
OkFramesAfter_KeptOnBadFrame(ok, cte, heading_err) ==
    IF GoodFrame(cte, heading_err) THEN ok + 1 ELSE ok

\* lines 258-260: the counter after a step taken while recover_active
OkFramesAfter(ok, cte, heading_err) ==
    IF GoodFrame(cte, heading_err) THEN ok + 1 ELSE 0

\* lines 241-264 on the closure c = [recover_active, recover_ok_frames,
\* recover_min_frames, pid_prev_error, dt]; forced is line 247's test
recovery_control(c, forced, v, cte, heading_err, idm) ==
    LET steer0 == PID_step(cte + heading_err, c.pid_prev_error, c.dt)
        act == c.recover_active \/ OverThreshold(cte, heading_err) \/ forced
        ok == OkFramesAfter(c.recover_ok_frames, cte, heading_err)
    IN  IF act
        THEN [steer |-> steer0 * recover_gain,
              accel |-> IF v > recover_speed THEN Min(idm, -1) ELSE idm,
              base_steer |-> steer0, base_accel |-> idm,
              recovering |-> TRUE,
              active |-> ~(ok >= c.recover_min_frames),
              ok_frames |-> ok]
        ELSE [steer |-> steer0, accel |-> idm,
              base_steer |-> steer0, base_accel |-> idm,
              recovering |-> FALSE,
              active |-> FALSE,
              ok_frames |-> c.recover_ok_frames]

\* control_with_recovery(state, t) for the measured (cte, heading_err) and
\* the IDM output idm: the commands and the new closure state
control_with_recovery(v, tt, cte, heading_err, idm) ==
    recovery_control([recover_active |-> recover_active,
                      recover_ok_frames |-> recover_ok_frames,
                      recover_min_frames |-> recover_min_frames,
                      pid_prev_error |-> pid_prev_error, dt |-> dt],
                     InForcedWindow(tt), v, cte, heading_err, idm)

\* bicycle_model.step, the speed: v + clamp(accel)*dt
step_v(v, accel, d) == v + Max(a_min, Min(a_max, accel)) * d

---------------------------------------------------------------------------
(* Simulator.rollout *)

\* a loop that runs once too often
LoopContinues_OffByOne(n, k) == n <= k

\* line 37: for _ in range(steps)
LoopContinues(n, k) == n < k

\* line 44: t += dt
NextT(tt, d) == tt + d

NoFrame ==
    [t |-> -1, v |-> 0, cmd_steer |-> 0, cmd_accel |-> 0, perturb_on |-> FALSE,
     cte |-> 0, heading_err |-> 0, was_active |-> FALSE, recovering |-> FALSE,
     base_steer |-> 0, base_accel |-> 0, v_before |-> 0]

\* the state when rollout enters its loop (lines 34-36), in the closure main built
RolloutInit ==
    /\ pc = "loop"
    /\ steps \in StepsVals
    /\ dt \in DtVals
    /\ t = 0
    /\ state_v \in InitSpeeds
    /\ perturb_fn_given \in BOOLEAN
    /\ frames = <<>>
    /\ last = NoFrame
    /\ perturb \in [start_t : StartVals, duration : DurationVals,
                    steer_delta : SteerDeltaVals,
                    acc_delta : AccDeltaVals]
    /\ recover_min_frames \in MinFramesVals
    /\ recover_window \in WindowVals
    /\ recover_active = FALSE
    /\ recover_ok_frames = 0
    /\ pid_prev_error = 0
    /\ ctrl_calls = 0
    /\ good_since_entry = 0
    /\ exited_now = FALSE

\* One iteration of the loop (lines 38-44): control_fn, perturb_fn, step,
\* append, t += dt.
RolloutStep ==
    /\ pc = "loop"
    /\ LoopContinues(Len(frames), steps)
    /\ \E e \in ErrInputs, idm \in IdmAccelVals :
         LET cte == e[1]
             heading_err == e[2]
             c == control_with_recovery(state_v, t, cte, heading_err, idm)
             p == IF perturb_fn_given
                  THEN perturb_fn(t, c.steer, c.accel)
                  ELSE [steer |-> c.steer, accel |-> c.accel, on |-> FALSE]
             good == GoodFrame(cte, heading_err)
         IN  /\ recover_active' = c.active
             /\ recover_ok_frames' = c.ok_frames
             /\ pid_prev_error' = cte + heading_err
             /\ state_v' = step_v(state_v, p.accel, dt)
             /\ frames' = Append(frames, [t |-> t, perturb_on |-> p.on])
             /\ last' = [t |-> t, v |-> state_v', cmd_steer |-> p.steer,
                         cmd_accel |-> p.accel, perturb_on |-> p.on,
                         cte |-> cte, heading_err |-> heading_err,
                         was_active |-> recover_active,
                         recovering |-> c.recovering,
                         base_steer |-> c.base_steer,
                         base_accel |-> c.base_accel,
                         v_before |-> state_v]
             /\ ctrl_calls' = ctrl_calls + 1
             /\ good_since_entry' =
                    IF ~c.recovering THEN 0
                    ELSE IF ~good THEN 0
                    ELSE IF recover_active THEN good_since_entry + 1
                    ELSE 1
             /\ exited_now' = (c.recovering /\ ~c.active)
    /\ t' = NextT(t, dt)
    /\ UNCHANGED <<pc, steps, dt, perturb_fn_given, perturb, recover_min_frames,
                   recover_window, labVars, smpVars>>

\* line 45: return frames
RolloutReturn ==
    /\ pc = "loop"
    /\ ~LoopContinues(Len(frames), steps)
    /\ pc' = "done"
    /\ UNCHANGED <<steps, dt, t, state_v, perturb_fn_given, frames, last,
                   ctlVars, histVars, labVars, smpVars>>

\* no rollout under way
RolloutIdle ==
    /\ pc = "idle" /\ steps = 0 /\ dt = 1 /\ t = 0 /\ state_v = 0
    /\ perturb_fn_given = FALSE /\ frames = <<>> /\ last = NoFrame
    /\ perturb = [start_t |-> 0, duration |-> 0, steer_delta |-> 0, acc_delta |-> 0]
    /\ recover_min_frames = 1 /\ recover_window = 0
    /\ recover_active = FALSE /\ recover_ok_frames = 0 /\ pid_prev_error = 0
    /\ ctrl_calls = 0 /\ good_since_entry = 0 /\ exited_now = FALSE

---------------------------------------------------------------------------
(* Labeler.compute                                                         *)
(*                                                                         *)
(* Lengths are in 0.1 m, speeds in 0.1 m/s, so dist / rel_speed is in      *)
(* seconds; it is kept as an exact fraction in lowest terms.  yaw is a     *)
(* number of quarter turns (0 or 1), for which cos and sin are exact and   *)
(* the boxes are axis-aligned.  The positions of LabelSimFrames and        *)
(* LabelAgents are chosen so that every centre distance is a whole number. *)

\* config defaults of Labeler.compute
ego_length == 48
ego_width == 20
agent_length_default == 48
agent_width_default == 20
recover_time == 3
\* the angle of yaw quarter turns in 0.1 rad (pi/2 = 1.57, rounded to 1.6)
yaw_angle(yaw) == 16 * yaw

\* the map: one lane whose centerline is the segment (0,0)-(100,0), and a
\* rectangular drivable area around it
Centerline == << <<0, 0>>, <<100, 0>> >>
Drivable == [xmin |-> -40, xmax |-> 120, ymin |-> -20, ymax |-> 20]

\* the sim frames and agents the calls are built from
LabelSimFrames ==
    { [t |-> 0, x |-> 0, y |-> 0, yaw |-> 0, v |-> 10],
      [t |-> 3, x |-> 30, y |-> 0, yaw |-> 0, v |-> 10],
      [t |-> 4, x |-> 50, y |-> 48, yaw |-> 0, v |-> 0],
      [t |-> 5, x |-> 52, y |-> 0, yaw |-> 1, v |-> 40] }
LabelAgents ==
    [a1 |-> [x |-> 50, y |-> 0, yaw |-> 0, v |-> 0, length |-> 40, width |-> 20],
     a2 |-> [x |-> 86, y |-> 0, yaw |-> 0, v |-> 30, length |-> 0, width |-> 0],
     a3 |-> [x |-> 86, y |-> 0, yaw |-> 1, v |-> 9, length |-> 40, width |-> -1]]
LabelAgentLists ==
    { <<>>, <<LabelAgents.a1>>, <<LabelAgents.a2, LabelAgents.a3>>,
      <<LabelAgents.a3, LabelAgents.a1>> }

RECURSIVE Gcd(_, _)
Gcd(a, b) == IF b = 0 THEN Abs(a) ELSE Gcd(b, a % Abs(b))

Inf == [num |-> 1, den |-> 0]
\* n / d, d # 0, in lowest terms with a positive denominator
Frac(n, d) ==
    LET g == Gcd(n, d)
        sgn == IF d < 0 THEN -1 ELSE 1
    IN  [num |-> sgn * (n \div g), den |-> sgn * (d \div g)]
\* a < b for fractions, +inf included
FracLess(a, b) == a.num * b.den < b.num * a.den

\* math.cos, math.sin of a quarter-turn count
cosq(q) == IF q = 0 THEN 1 ELSE 0
sinq(q) == IF q = 0 THEN 0 ELSE 1

\* sqrt(dx^2 + dy^2), rounded down (exact on the inputs used)
sqrt2(dx, dy) ==
    CHOOSE r \in Max(Abs(dx), Abs(dy)) .. (Abs(dx) + Abs(dy)) :
        r * r <= dx * dx + dy * dy /\ dx * dx + dy * dy < (r + 1) * (r + 1)

\* _box_polygon: the four corners
_box_polygon(x, y, yaw, length, width) ==
    LET dx == length \div 2
        dy == width \div 2
        corners == << <<-dx, -dy>>, <<-dx, dy>>, <<dx, dy>>, <<dx, -dy>> >>
        c == cosq(yaw)
        s == sinq(yaw)
    IN  [i \in 1 .. 4 |->
            << corners[i][1] * c - corners[i][2] * s + x,
               corners[i][1] * s + corners[i][2] * c + y >>]

PolyMinX(p) == CHOOSE m \in {p[i][1] : i \in 1 .. 4} : \A i \in 1 .. 4 : m <= p[i][1]
PolyMaxX(p) == CHOOSE m \in {p[i][1] : i \in 1 .. 4} : \A i \in 1 .. 4 : m >= p[i][1]
PolyMinY(p) == CHOOSE m \in {p[i][2] : i \in 1 .. 4} : \A i \in 1 .. 4 : m <= p[i][2]
PolyMaxY(p) == CHOOSE m \in {p[i][2] : i \in 1 .. 4} : \A i \in 1 .. 4 : m >= p[i][2]

\* Polygon.intersects for two axis-aligned boxes: they share a point
intersects(p, q) ==
    /\ PolyMinX(p) <= PolyMaxX(q) /\ PolyMinX(q) <= PolyMaxX(p)
    /\ PolyMinY(p) <= PolyMaxY(q) /\ PolyMinY(q) <= PolyMaxY(p)

\* MapAPI.is_off_road with a drivable-area polygon: not contains(ego_poly)
is_off_road(p) ==
    ~(/\ Drivable.xmin <= PolyMinX(p) /\ PolyMaxX(p) <= Drivable.xmax
      /\ Drivable.ymin <= PolyMinY(p) /\ PolyMaxY(p) <= Drivable.ymax)

\* _project_point_to_segment for a segment of zero length or along an axis:
\* t = ((px - x1)*dx + (py - y1)*dy) / (dx*dx + dy*dy) clamped to [0, 1] and
\* proj = (x1 + t*dx, y1 + t*dy), which puts the coordinate along the
\* segment between its ends and leaves the other at the segment's
_project_point_to_segment(px, py, p0, p1) ==
    LET dx == p1[1] - p0[1]
        dy == p1[2] - p0[2]
        projx == IF dy = 0
                 THEN Max(Min(p0[1], p1[1]), Min(Max(p0[1], p1[1]), px))
                 ELSE p0[1]
        projy == IF dx = 0
                 THEN Max(Min(p0[2], p1[2]), Min(Max(p0[2], p1[2]), py))
                 ELSE p0[2]
    IN  IF dx = 0 /\ dy = 0
        THEN [proj |-> p0, dist |-> sqrt2(px - p0[1], py - p0[2])]
        ELSE [proj |-> <<projx, projy>>, dist |-> sqrt2(px - projx, py - projy)]

\* pi, in the unit of heading_err (0.1 rad, taken as pi/32)
PI == 32

\* math.atan2(dy, dx) for a direction along an axis; atan2(0, 0) = 0
atan2(dy, dx) ==
    IF dy = 0 THEN (IF dx >= 0 THEN 0 ELSE PI)
    ELSE IF dy > 0 THEN PI \div 2 ELSE -(PI \div 2)

\* _wrap_angle: the two while loops
RECURSIVE _wrap_angle(_)
_wrap_angle(angle) ==
    IF angle > PI THEN _wrap_angle(angle - 2 * PI)
    ELSE IF angle < -PI THEN _wrap_angle(angle + 2 * PI)
    ELSE angle

\* lines 97-105 of labeler.py: the segment at the least distance, the first
\* of them; best.i = 0 is best_seg = None
RECURSIVE best_segment(_, _, _, _, _)
best_segment(centerline, x, y, i, best) ==
    IF i > Len(centerline) - 1 THEN best
    ELSE LET pr == _project_point_to_segment(x, y, centerline[i], centerline[i + 1])
         IN  best_segment(centerline, x, y, i + 1,
                          IF best.i = 0 \/ pr.dist < best.dist
                          THEN [i |-> i, dist |-> pr.dist] ELSE best)

\* errors that depend on the pose although there is no lane
errors_without_lane_FromOrigin(x, y, yaw) == <<sqrt2(x, y), _wrap_angle(-yaw)>>

\* labeler.py:95 and 108, run_pipeline.py:102 and 115: return 0.0, 0.0
errors_without_lane(x, y, yaw) == <<0, 0>>

\* _compute_errors for the centerline lane_centerline returned:
\* <<cte, heading_err>>
compute_errors(centerline, x, y, yaw) ==
    IF Len(centerline) < 2 THEN errors_without_lane(x, y, yaw)
    ELSE LET best == best_segment(centerline, x, y, 1, [i |-> 0, dist |-> 0])
         IN  IF best.i = 0 THEN errors_without_lane(x, y, yaw)
             ELSE LET p0 == centerline[best.i]
                      p1 == centerline[best.i + 1]
                      seg_heading == atan2(p1[2] - p0[2], p1[1] - p0[1])
                      heading_err == _wrap_angle(seg_heading - yaw)
                      cross == (p1[1] - p0[1]) * (y - p0[2])
                               - (p1[2] - p0[2]) * (x - p0[1])
                  IN  << IF cross >= 0 THEN best.dist ELSE -best.dist, heading_err >>

\* _compute_errors on the map of Labeler.compute's calls, yaw in quarter turns
_compute_errors(x, y, yaw) == compute_errors(Centerline, x, y, yaw_angle(yaw))

\* off_road as the last frame alone decides it
OffRoadAfter_Overwrite(acc, poly) == is_off_road(poly)

\* line 51
OffRoadAfter(acc, poly) == acc \/ is_off_road(poly)

\* lines 62-63
CollisionAfter(acc, ego_poly, agent_poly) == acc \/ intersects(ego_poly, agent_poly)

\* the distance from the front of the ego to the agent's centre
dist_FromEgoFront(sim, agent) ==
    sqrt2(agent.x - sim.x, agent.y - sim.y) - ego_length \div 2

\* line 65: the distance between the two centres
dist(sim, agent) == sqrt2(agent.x - sim.x, agent.y - sim.y)

\* any speed difference counts
Closing_AnyRelSpeed(rel_speed) == rel_speed # 0

\* line 67: closing
Closing(rel_speed) == rel_speed > 1

\* lines 65-68
MinTtcAfter(acc, sim, agent) ==
    LET rel_speed == sim.v - agent.v
    IN  IF Closing(rel_speed)
        THEN LET ttc == Frac(dist(sim, agent), rel_speed)
             IN  IF FracLess(ttc, acc) THEN ttc ELSE acc
        ELSE acc

\* recovered as the last frame alone decides it
RecoveredAfter_Overwrite(acc, sim) ==
    /\ sim.t >= recover_time
    /\ LET e == _compute_errors(sim.x, sim.y, sim.yaw)
       IN  Abs(e[1]) <= eps_cte /\ Abs(e[2]) <= eps_yaw

\* recovered set by a frame within tolerance at any time
RecoveredAfter_NoTimeGate(acc, sim) ==
    LET e == _compute_errors(sim.x, sim.y, sim.yaw)
    IN  IF Abs(e[1]) <= eps_cte /\ Abs(e[2]) <= eps_yaw THEN TRUE ELSE acc

\* lines 72-73, for the errors e line 71 obtained
RecoveredFrom(acc, e) ==
    IF Abs(e[1]) <= eps_cte /\ Abs(e[2]) <= eps_yaw THEN TRUE ELSE acc

\* lines 70-73
RecoveredAfter(acc, sim) ==
    IF sim.t >= recover_time
    THEN RecoveredFrom(acc, _compute_errors(sim.x, sim.y, sim.yaw))
    ELSE acc

\* lines 58-68: the loop over the agents, from the k-th on
RECURSIVE AgentsLoop(_, _, _, _)
AgentsLoop(acc, sim, agents, k) ==
    IF k > Len(agents) THEN acc
    ELSE LET agent == agents[k]
             length == IF agent.length > 0 THEN agent.length ELSE agent_length_default
             width == IF agent.width > 0 THEN agent.width ELSE agent_width_default
             ego_poly == _box_polygon(sim.x, sim.y, sim.yaw, ego_length, ego_width)
             agent_poly == _box_polygon(agent.x, agent.y, agent.yaw, length, width)
         IN  AgentsLoop([acc EXCEPT !.collision = CollisionAfter(@, ego_poly, agent_poly),
                                    !.min_ttc = MinTtcAfter(@, sim, agent)],
                        sim, agents, k + 1)

\* lines 49-73: one iteration of the loop over sim_frames; i is idx (0-based)
FrameUpdate(acc, sim, i, scen) ==
    LET ego_poly == _box_polygon(sim.x, sim.y, sim.yaw, ego_length, ego_width)
        agents == IF i < Len(scen) THEN scen[i + 1].agents ELSE <<>>
        a1 == [acc EXCEPT !.off_road = OffRoadAfter(@, ego_poly)]
        a2 == AgentsLoop(a1, sim, agents, 1)
    IN  [a2 EXCEPT !.is_recovered = RecoveredAfter(@, sim)]

\* lines 33 and 44-47
DefaultLabels ==
    [collision |-> FALSE, off_road |-> FALSE, is_recovered |-> FALSE, min_ttc |-> Inf]

RECURSIVE ComputeLoop(_, _, _, _)
ComputeLoop(acc, sim, scen, i) ==
    IF i >= Len(sim) THEN acc
    ELSE ComputeLoop(FrameUpdate(acc, sim[i + 1], i, scen), sim, scen, i + 1)

\* Labeler.compute as a whole
Labeler_compute(sim, scen) ==
    IF sim = <<>> THEN DefaultLabels ELSE ComputeLoop(DefaultLabels, sim, scen, 0)

\* the permutations of 1..n, and a list permuted
Perms(n) == {f \in [1 .. n -> 1 .. n] : \A i, j \in 1 .. n : f[i] = f[j] => i = j}
Permuted(seq, f) == [i \in 1 .. Len(seq) |-> seq[f[i]]]

Accumulators ==
    [collision |-> collision, off_road |-> off_road, is_recovered |-> recovered,
     min_ttc |-> min_ttc]

SeqsUpTo(S, n) == UNION {[1 .. k -> S] : k \in 0 .. n}

\* no call of compute under way
LabelIdle ==
    /\ lab_pc = "idle" /\ sim_frames = <<>> /\ scenario_frames = <<>> /\ idx = 0
    /\ collision = FALSE /\ off_road = FALSE /\ min_ttc = Inf /\ recovered = FALSE
    /\ labels = DefaultLabels /\ perm = <<>>
    /\ labels_perm = DefaultLabels /\ labels_joint = DefaultLabels

\* compute is called
LabelInit ==
    /\ lab_pc = "start"
    /\ sim_frames \in SeqsUpTo(LabelSimFrames, MaxFrames)
    /\ scenario_frames \in SeqsUpTo([agents : LabelAgentLists], MaxFrames)
    /\ idx = 0
    /\ collision = FALSE /\ off_road = FALSE /\ min_ttc = Inf /\ recovered = FALSE
    /\ labels = DefaultLabels /\ perm = <<>>
    /\ labels_perm = DefaultLabels /\ labels_joint = DefaultLabels

\* lines 32-33: no sim frames
ComputeEmpty ==
    /\ lab_pc = "start" /\ sim_frames = <<>>
    /\ labels' = DefaultLabels
    /\ lab_pc' = "returned"
    /\ UNCHANGED <<sim_frames, scenario_frames, idx, collision, off_road, min_ttc,
                   recovered, perm, labels_perm, labels_joint>>

\* lines 35-47: the accumulators are set up
ComputeBegin ==
    /\ lab_pc = "start" /\ sim_frames # <<>>
    /\ collision' = FALSE /\ off_road' = FALSE /\ min_ttc' = Inf /\ recovered' = FALSE
    /\ idx' = 0
    /\ lab_pc' = "loop"
    /\ UNCHANGED <<sim_frames, scenario_frames, labels, perm, labels_perm, labels_joint>>

\* lines 49-73: one sim frame
ComputeFrame ==
    /\ lab_pc = "loop" /\ idx < Len(sim_frames)
    /\ LET acc == FrameUpdate(Accumulators, sim_frames[idx + 1], idx, scenario_frames)
       IN  /\ collision' = acc.collision
           /\ off_road' = acc.off_road
           /\ min_ttc' = acc.min_ttc
           /\ recovered' = acc.is_recovered
    /\ idx' = idx + 1
    /\ UNCHANGED <<lab_pc, sim_frames, scenario_frames, labels, perm, labels_perm,
                   labels_joint>>

\* line 75
ComputeReturn ==
    /\ lab_pc = "loop" /\ idx >= Len(sim_frames)
    /\ labels' = Accumulators
    /\ lab_pc' = "returned"
    /\ UNCHANGED <<sim_frames, scenario_frames, idx, collision, off_road, min_ttc,
                   recovered, perm, labels_perm, labels_joint>>

\* compute is called again, on the sim frames permuted by f: once with the
\* scenario frames as they are, once with the scenario frames permuted too
\* (when there is one scenario frame per sim frame)
ComputePermuted ==
    /\ lab_pc = "returned"
    /\ \E f \in Perms(Len(sim_frames)) :
         /\ perm' = f
         /\ labels_perm' = Labeler_compute(Permuted(sim_frames, f), scenario_frames)
         /\ labels_joint' =
                IF Len(scenario_frames) = Len(sim_frames)
                THEN Labeler_compute(Permuted(sim_frames, f), Permuted(scenario_frames, f))
                ELSE labels
    /\ lab_pc' = "compared"
    /\ UNCHANGED <<sim_frames, scenario_frames, idx, collision, off_road, min_ttc,
                   recovered, labels>>

---------------------------------------------------------------------------
(* PerturbationFactory.sample                                              *)
(*                                                                         *)
(* A config value is None, a scalar or a two-element list; it is held as   *)
(* [k, lo, hi] with k = "none", "fixed" (the scalar in lo) or "range".     *)
(* An optional number is held as [some, v].                                *)
(*                                                                         *)
(* The widths of _seed_from are scaled down by 8: the 64-bit prefix of the *)
(* digest is DigestBits = 8 bits wide and the 32-bit mask SeedBits = 4.    *)
(* sha256 is a fixed table on the scene tokens used.  random.Random is a   *)
(* linear congruential generator on the masked seed: what the model keeps  *)
(* of it is that its draws are a function of the seed and of the number of *)
(* draws made, and that uniform(a, b) lies between a and b and             *)
(* randint(a, b) in a..b.                                                  *)

DigestBits == 8
SeedBits == 4

RECURSIVE Pow2(_)
Pow2(n) == IF n = 0 THEN 1 ELSE 2 * Pow2(n - 1)

RECURSIVE BitXor(_, _)
BitXor(a, b) ==
    IF a = 0 /\ b = 0 THEN 0
    ELSE (((a % 2) + (b % 2)) % 2) + 2 * BitXor(a \div 2, b \div 2)

SceneTokens == {"scene-abc", "scene-xyz"}
\* int(sha256(scene_token).hexdigest()[:16], 16)
DigestPrefix(scene_token) == IF scene_token = "scene-abc" THEN 167 ELSE 60

\* _seed_from
_seed_from(scene_token, global_seed) ==
    BitXor(DigestPrefix(scene_token), global_seed) % Pow2(SeedBits)

RngMod == Pow2(SeedBits)
rng_next(s) == (5 * s + 3) % RngMod

\* the generator of the previous call, used again
random_Random_Reused(carried, seed) == carried

\* line 26: random.Random(seed), a new generator whatever generator exists
random_Random(carried, seed) == seed % RngMod

\* rng.choice, rng.uniform, rng.randint: the value drawn and the generator after
rng_choice(s, seq) == [v |-> seq[1 + (s % Len(seq))], rng |-> rng_next(s)]
rng_uniform(s, a, b) == [v |-> a + ((b - a) * s) \div RngMod, rng |-> rng_next(s)]
rng_randint(s, a, b) == [v |-> a + (s % (b - a + 1)), rng |-> rng_next(s)]

NoneV == [k |-> "none", lo |-> 0, hi |-> 0]
Fixed(v) == [k |-> "fixed", lo |-> v, hi |-> v]
Range(a, b) == [k |-> "range", lo |-> a, hi |-> b]
NoNum == [some |-> FALSE, v |-> 0]
Num(n) == [some |-> TRUE, v |-> n]

\* _sample_range
_sample_range(s, value) ==
    IF value.k = "none" THEN [v |-> 0, rng |-> s]
    ELSE IF value.k = "range" THEN rng_uniform(s, value.lo, value.hi)
    ELSE [v |-> value.lo, rng |-> s]

\* _sample_int_range
_sample_int_range(s, value) ==
    IF value.k = "none" THEN [v |-> 0, rng |-> s]
    ELSE IF value.k = "range" THEN rng_randint(s, value.lo, value.hi)
    ELSE [v |-> value.lo, rng |-> s]

\* _extract_dt
_extract_dt(config) ==
    LET d == IF config.sample_dt.some THEN config.sample_dt ELSE config.dt
    IN  IF ~d.some \/ d.v = 0 THEN NoNum ELSE d

\* cfg.get(kind, {})
EmptySub ==
    [steer_delta |-> NoneV, acc_delta |-> NoneV, lateral_offset |-> NoneV,
     start_t |-> NoneV, start_t_range |-> NoneV,
     duration_sec |-> NoneV, duration_steps |-> NoneV]

\* PerturbationFactory.sample: the Perturbation and the generator after it
sample(config, carried, scene_token) ==
    LET global_seed == config.seed
        seed == _seed_from(scene_token, global_seed)
        r0 == random_Random(carried, seed)
        types == config.types
        kd == IF Len(types) > 0 THEN rng_choice(r0, types)
              ELSE [v |-> "impulse", rng |-> r0]
        kind == kd.v
        subcfg == IF kind = "impulse" THEN config.impulse ELSE EmptySub
        sd == _sample_range(kd.rng, subcfg.steer_delta)
        ad == _sample_range(sd.rng, subcfg.acc_delta)
        lo == _sample_range(ad.rng, subcfg.lateral_offset)
        st0 == _sample_range(lo.rng, subcfg.start_t)
        st == IF st0.v = 0 THEN _sample_range(st0.rng, subcfg.start_t_range) ELSE st0
        du0 == _sample_range(st.rng, subcfg.duration_sec)
        du == IF du0.v = 0
              THEN LET ds == _sample_int_range(du0.rng, subcfg.duration_steps)
                       d == _extract_dt(config)
                   IN  IF ds.v > 0
                       THEN [v |-> IF d.some THEN ds.v * d.v ELSE ds.v, rng |-> ds.rng]
                       ELSE [v |-> du0.v, rng |-> ds.rng]
              ELSE du0
    IN  [p |-> [kind |-> kind, steer_delta |-> sd.v, acc_delta |-> ad.v,
                start_t |-> st.v, duration |-> du.v, lateral_offset |-> lo.v],
         seed |-> seed,
         rng |-> du.rng]

\* config["seed"]: 5 and 21 differ in a bit above the mask of _seed_from and
\* inside the digest prefix
GlobalSeeds == {0, 5, 21}

\* the configs the factories are built from
SampleConfigs ==
    [seed : GlobalSeeds,
     types : {<<>>, <<"impulse">>, <<"impulse", "drift">>},
     sample_dt : {NoNum, Num(0), Num(2), Num(-1)},
     dt : {NoNum, Num(3)},
     impulse : [steer_delta : {Range(-2, 2)}, acc_delta : {Fixed(1)},
                lateral_offset : {NoneV},
                start_t : {NoneV, Fixed(1)},
                start_t_range : {NoneV, Range(1, 3)},
                duration_sec : {NoneV, Fixed(2), Fixed(-1), Range(-2, 2)},
                duration_steps : {NoneV, Fixed(3), Range(-1, 2)}]]

Factories == {1, 2}

\* no factory
SampleIdle ==
    /\ factory_config = <<>> /\ rng = 0 /\ calls = <<>>

\* PerturbationFactory(config), twice, from one config
SampleInit ==
    /\ \E c \in SampleConfigs : factory_config = [f \in Factories |-> c]
    /\ rng = 0
    /\ calls = <<>>

\* factory f's sample(scene_token)
SampleCall ==
    /\ Len(calls) < MaxCalls
    /\ \E f \in Factories, scene_token \in SceneTokens :
         LET r == sample(factory_config[f], rng, scene_token)
         IN  /\ calls' = Append(calls, [factory |-> f, scene_token |-> scene_token,
                                        seed |-> r.seed, p |-> r.p])
             /\ rng' = r.rng
    /\ UNCHANGED factory_config

---------------------------------------------------------------------------
(* bicycle_model.step                                                      *)
(*                                                                         *)
(* Speed in m/s, acceleration in m/s^2, dt in s, wheel_base in 0.1 m,      *)
(* steer in 0.1 rad, yaw in 0.001 rad, x and y in mm.  tan is tabulated to *)
(* three decimals on the steering angles used; cos and sin are those of    *)
(* the two headings used (0 and pi/2).  Divisions round down.              *)

\* math.tan(steer), times 1000, for |steer| <= 0.9 rad
tan1000(steer) ==
    LET tbl == <<100, 203, 309, 423, 546, 684, 842, 1030, 1260>>
    IN  IF steer = 0 THEN 0
        ELSE IF steer > 0 THEN tbl[steer] ELSE -tbl[-steer]

\* the cosine taken for the sine
cos1000_AsSine(yaw) == IF yaw = 0 THEN 0 ELSE 1000

\* math.cos(yaw), math.sin(yaw), times 1000, for yaw = 0 and yaw = 1.571
cos1000(yaw) == IF yaw = 0 THEN 1000 ELSE 0
sin1000(yaw) == IF yaw = 0 THEN 0 ELSE 1000

\* line 25
clamp_steer(steer, params) == Max(-params.steer_limit, Min(params.steer_limit, steer))

\* the acceleration bounded from above only
clamp_accel_UpperOnly(accel, params) == Min(params.a_max, accel)

\* line 26
clamp_accel(accel, params) == Max(params.a_min, Min(params.a_max, accel))

\* lines 24-31
step(state, steer, accel, d, params) ==
    LET steer_c == clamp_steer(steer, params)
        accel_c == clamp_accel(accel, params)
    IN  [x |-> state.x + state.v * cos1000(state.yaw) * d,
         y |-> state.y + state.v * sin1000(state.yaw) * d,
         yaw |-> state.yaw
                 + (10 * state.v * tan1000(steer_c) * d) \div params.wheel_base,
         v |-> state.v + accel_c * d]

\* the arguments of the calls
StepStates == [x : {0}, y : {0, 500}, yaw : {0, 1571}, v : {0, 7, 14}]
StepSteers == {-9, -6, -4, 0, 2, 6, 7}
StepAccels == {-8, -6, -1, 0, 3, 5}
StepParams ==
    [wheel_base : {28}, steer_limit : {3, 6}, a_min : {a_min, -2},
     a_max : {a_max, 1}, a_lat_max : {4}]

NoState == [x |-> 0, y |-> 0, yaw |-> 0, v |-> 0]
NoParams == [wheel_base |-> 28, steer_limit |-> 6, a_min |-> a_min,
             a_max |-> a_max, a_lat_max |-> 4]

\* no call of step under way
StepIdle ==
    /\ bm_pc = "idle" /\ bm_state = NoState /\ bm_steer = 0 /\ bm_accel = 0
    /\ bm_dt = 1 /\ bm_params = NoParams /\ bm_result = NoState

\* step(state, steer, accel, dt, params) is called
StepInit ==
    /\ bm_pc = "called"
    /\ bm_state \in StepStates
    /\ bm_steer \in StepSteers
    /\ bm_accel \in StepAccels
    /\ bm_dt \in DtVals
    /\ bm_params \in StepParams
    /\ bm_result = NoState

\* the body of step: it builds and returns a new VehicleState
StepCall ==
    /\ bm_pc = "called"
    /\ bm_result' = step(bm_state, bm_steer, bm_accel, bm_dt, bm_params)
    /\ bm_pc' = "returned"
    /\ UNCHANGED <<bm_state, bm_steer, bm_accel, bm_dt, bm_params>>

---------------------------------------------------------------------------
(* Two invocations of main, each with its rollout under way                *)
(*                                                                         *)
(* Each invocation builds its own PIDController (lines 207-209), its own   *)
(* Perturbation and its own recover_active / recover_ok_frames (lines      *)
(* 225-226).  The controller objects live in pid_heap; a rollout reaches   *)
(* its controller through pid_of.  The errors and the IDM output a rollout *)
(* meets at its i-th step are inputs of that rollout (script): they follow *)
(* from its own pose and speed, which the model does not compute.          *)

Rollouts == {1, 2}

\* <<cte, heading_err, idm accel>> of one step
PairInputs == {<<0, 0, 1>>, <<5, 0, -2>>, <<-9, 0, 1>>}

\* what an invocation of main starts its rollout from
PairConfigs ==
    [steps : {MaxPairSteps}, dt : {1}, init_v : InitSpeeds,
     perturb : [start_t : {0, 1}, duration : {0}, steer_delta : SteerDeltaVals,
                acc_delta : AccDeltaVals],
     recover_min_frames : {2}, recover_window : {2},
     script : [1 .. MaxPairSteps -> PairInputs]]

\* one controller object used by every rollout
pid_of_Shared(r) == 1

\* lines 207-209: pid = PIDController(...); pid.reset(), once per invocation
pid_of(r) == r

\* lines 225-226 and rollout.py:34-36: the state a rollout starts in
InitialClosure(inp) ==
    [inp |-> inp, t |-> 0, v |-> inp.init_v, frames |-> <<>>,
     recover_active |-> FALSE, recover_ok_frames |-> 0]

\* rollout.py:38-44 with control_with_recovery and perturb_fn, for the
\* rollout state c and its controller's _prev_error
rollout_iter(c, prev) ==
    LET e == c.inp.script[Len(c.frames) + 1]
        ctl == recovery_control(
                   [recover_active |-> c.recover_active,
                    recover_ok_frames |-> c.recover_ok_frames,
                    recover_min_frames |-> c.inp.recover_min_frames,
                    pid_prev_error |-> prev, dt |-> c.inp.dt],
                   forced_window(c.inp.perturb, c.inp.recover_window, c.t),
                   c.v, e[1], e[2], e[3])
        p == perturb_overlay(c.inp.perturb, c.t, ctl.steer, ctl.accel)
        v2 == step_v(c.v, p.accel, c.inp.dt)
    IN  [c |-> [c EXCEPT !.recover_active = ctl.active,
                         !.recover_ok_frames = ctl.ok_frames,
                         !.v = v2,
                         !.frames = Append(@, [t |-> c.t, v |-> v2,
                                               cmd_steer |-> p.steer,
                                               cmd_accel |-> p.accel,
                                               perturb_on |-> p.on]),
                         !.t = NextT(@, c.inp.dt)],
         prev |-> e[1] + e[2]]

\* the frames of a rollout that runs from c to its end with nothing else
\* running
RECURSIVE run_alone(_, _)
run_alone(c, prev) ==
    IF ~LoopContinues(Len(c.frames), c.inp.steps) THEN c.frames
    ELSE LET n == rollout_iter(c, prev) IN run_alone(n.c, n.prev)

\* no invocation of main
PairIdle == ro = <<>> /\ pid_heap = <<>> /\ order = <<>>

\* two invocations of main have reached sim.rollout
PairInit ==
    /\ ro \in [Rollouts -> {InitialClosure(inp) : inp \in PairConfigs}]
    /\ pid_heap = [id \in Rollouts |-> 0]
    /\ order = <<>>

\* rollout r runs one iteration of its loop
PairStep ==
    \E r \in Rollouts :
        /\ LoopContinues(Len(ro[r].frames), ro[r].inp.steps)
        /\ LET n == rollout_iter(ro[r], pid_heap[pid_of(r)])
           IN  /\ ro' = [ro EXCEPT ![r] = n.c]
               /\ pid_heap' = [pid_heap EXCEPT ![pid_of(r)] = n.prev]
        /\ order' = Append(order, r)

---------------------------------------------------------------------------
(* main, from loader.load to writer.write_scene                            *)
(*                                                                         *)
(* Times of the scenario's frames and main's dt are in tenths of a second  *)
(* (the default dt, 0.1, is 1); the config's dt values and the sampled     *)
(* Perturbation are in seconds, as in PerturbationFactory.sample above.    *)

Tenths(sec) == 10 * sec

\* a scenario without iterations is one that reports a negative number
no_iterations_NegativeOnly(num_iters) == num_iters < 0

\* scene_loader.py:231: num_iters <= 0
no_iterations(num_iters) == num_iters <= 0

\* SceneLoader.load on a scenario of num_iters iterations whose ego states
\* are spacing apart: the error raised or the frames' times, and the number
\* of get_ego_state / get_agents calls made
SceneLoader_load(scenario) ==
    IF no_iterations(scenario.num_iters)
    THEN [error |-> "ValueError", frames |-> <<>>, reads |-> 0]
    ELSE [error |-> "none",
          frames |-> [i \in 1 .. scenario.num_iters |-> (i - 1) * scenario.spacing],
          reads |-> 2 * Max(0, scenario.num_iters)]

\* run_pipeline.py:180-185: the dt of the rollout
main_dt(config, internal_frames) ==
    LET d0 == IF config.sample_dt.some THEN [some |-> TRUE, v |-> Tenths(config.sample_dt.v)]
              ELSE IF Len(internal_frames) > 1
                   THEN [some |-> TRUE, v |-> internal_frames[2] - internal_frames[1]]
              ELSE NoNum
    IN  IF ~d0.some \/ d0.v <= 0 THEN 1 ELSE d0.v

\* the scenarios and configs main is run on
MainInputs ==
    [scenario : [num_iters : {-1, 0, 1, 2, 3}, spacing : {0, 1, 5}],
     config : [seed : {0}, types : {<<"impulse">>},
               sample_dt : {NoNum, Num(0), Num(2)},
               dt : {NoNum, Num(3)},
               impulse : [steer_delta : {Fixed(1)}, acc_delta : {Fixed(1)},
                          lateral_offset : {NoneV}, start_t : {Fixed(1)},
                          start_t_range : {NoneV},
                          duration_sec : {NoneV, Fixed(0), Fixed(2)},
                          duration_steps : {NoneV, Fixed(3)}]]]

\* writer.py:22-25: what importing pandas, building the DataFrame and
\* to_parquet may end in: the exception raised ("none": the file is
\* written) and whether a trajectory.parquet was left behind all the same
ParquetOutcomes ==
    { [exc |-> "none", left |-> TRUE],
      [exc |-> "ImportError", left |-> FALSE],
      [exc |-> "ValueError", left |-> FALSE],
      [exc |-> "OSError", left |-> TRUE] }

\* a handler for a missing module only
except_Exception_ImportOnly(exc) == exc = "ImportError"

\* writer.py:26: except Exception
except_Exception(exc) == exc \in {"ImportError", "ValueError", "OSError"}

\* OutputWriter.write_scene on the directory tree files, for the values
\* main passes (JSON-serialisable): the tree after it and the error raised
write_scene(files, scene_token, parquet) ==
    LET f(name) == [dir |-> <<"scenes", scene_token>>, name |-> name]
        f1 == files \cup {f("meta.json"), f("labels.json")}
        f2 == IF parquet.left THEN f1 \cup {f("trajectory.parquet")} ELSE f1
    IN  IF parquet.exc = "none" THEN [files |-> f2, error |-> "none"]
        ELSE IF except_Exception(parquet.exc)
        THEN [files |-> f2 \cup {f("trajectory.json")}, error |-> "none"]
        ELSE [files |-> f2, error |-> parquet.exc]

NoMain ==
    [pc |-> "idle", error |-> "none", frames |-> <<>>, reads |-> 0, dt |-> 0,
     steps |-> 0, sampled |-> FALSE, duration |-> 0, rollouts |-> <<>>,
     written |-> FALSE, parquet |-> "not tried", files |-> {}]

\* main is not running
MainIdle == m_in = <<>> /\ mn = NoMain

\* main has built the scenarios, the loader and cfg (lines 155-174)
MainInit == m_in \in MainInputs /\ mn = [NoMain EXCEPT !.pc = "start"]

\* line 175: internal = loader.load(scene_token)
MainLoad ==
    /\ mn.pc = "start"
    /\ LET r == SceneLoader_load(m_in.scenario)
       IN  mn' = [mn EXCEPT !.pc = IF r.error = "none" THEN "loaded" ELSE "raised",
                            !.error = r.error, !.frames = r.frames, !.reads = r.reads]
    /\ UNCHANGED m_in

\* lines 176-226: the map, dt, init_state (internal.frames[0]), steps, the
\* controllers and perturb_factory.sample(scene_token)
MainPrepare ==
    /\ mn.pc = "loaded"
    /\ mn' = IF mn.frames = <<>>
             THEN [mn EXCEPT !.pc = "raised", !.error = "IndexError",
                             !.dt = main_dt(m_in.config, mn.frames)]
             ELSE [mn EXCEPT !.pc = "prepared",
                             !.dt = main_dt(m_in.config, mn.frames),
                             !.steps = Len(mn.frames),
                             !.sampled = TRUE,
                             !.duration = sample(m_in.config, 0, "scene-abc").p.duration]
    /\ UNCHANGED m_in

\* lines 266-297: sim.rollout(init_state, steps, dt, ...), labeler.compute
\* and writer.write_scene
MainRun ==
    /\ mn.pc = "prepared"
    /\ \E parquet \in ParquetOutcomes :
         LET w == write_scene(mn.files, "scene-abc", parquet)
         IN  mn' = [mn EXCEPT !.pc = IF w.error = "none" THEN "written" ELSE "raised",
                              !.error = w.error,
                              !.rollouts = Append(@, [steps |-> mn.steps, dt |-> mn.dt]),
                              !.written = TRUE,
                              !.parquet = parquet.exc,
                              !.files = w.files]
    /\ UNCHANGED m_in

---------------------------------------------------------------------------
(* SceneLoader and MapAPI: construction and the calls made on them         *)
(*                                                                         *)
(* The map object behind a MapAPI is duck-typed; backend says, for each    *)
(* group of methods MapAPI probes with hasattr, whether the object has it  *)
(* and how it answers.  Its geometry is that of Centerline and Drivable.   *)

Backends ==
    [proximal : {"absent", "raises", "empty", "lanes"},
     direct : {"absent", "raises", "path"},
     radius : {"absent", "raises", "none", "lane"},
     checker : {"absent", "present"},
     drivable : {"absent", "polygon"}]

\* footprints: none, inside the drivable area, outside it, across its edge
Footprints ==
    { <<>>, _box_polygon(30, 0, 0, ego_length, ego_width),
      _box_polygon(50, 48, 0, ego_length, ego_width),
      _box_polygon(52, 0, 1, ego_length, ego_width) }

\* a constructor that accepts a missing provider
provider_missing_Unchecked(provider) == FALSE

\* scene_loader.py:220, map_api.py:71: the provider is None
provider_missing(provider) == provider = "None"

\* SceneLoader.__init__: the error raised, or the object
SceneLoader_init(provider) ==
    IF provider_missing(provider)
    THEN [error |-> "RuntimeError", obj |-> <<>>]
    ELSE [error |-> "none", obj |-> <<[cls |-> "SceneLoader", provider |-> provider]>>]

\* MapAPI.__init__; line 75 calls the provider
MapAPI_init(provider) ==
    IF provider_missing(provider)
    THEN [error |-> "RuntimeError", obj |-> <<>>]
    ELSE IF provider = "None" THEN [error |-> "TypeError", obj |-> <<>>]
    ELSE [error |-> "none", obj |-> <<[cls |-> "MapAPI", provider |-> provider]>>]

\* MapAPI.lane_centerline on the map object b: the error that leaves the
\* method, the list returned, and whether a call on b raised
lane_centerline(b) ==
    LET caught == b.proximal = "raises"
    IN  IF b.proximal = "lanes"
        THEN [error |-> "none", value |-> Centerline, backend_raised |-> FALSE]
        ELSE IF b.direct = "raises"
        THEN [error |-> "BackendError", value |-> <<>>, backend_raised |-> TRUE]
        ELSE IF b.direct = "path"
        THEN [error |-> "none", value |-> Centerline, backend_raised |-> caught]
        ELSE IF b.radius = "raises"
        THEN [error |-> "BackendError", value |-> <<>>, backend_raised |-> TRUE]
        ELSE IF b.radius = "lane"
        THEN [error |-> "none", value |-> Centerline, backend_raised |-> caught]
        ELSE [error |-> "none", value |-> <<>>, backend_raised |-> caught]

\* run_pipeline.py:99-102, labeler.py:92-95: _compute_errors up to its
\* first return, at a pose on the centerline
errors_from_map(b) ==
    LET c == lane_centerline(b)
    IN  IF c.error # "none" THEN [c EXCEPT !.value = "none"]
        ELSE IF Len(c.value) < 2 THEN [c EXCEPT !.value = "no lane: (0.0, 0.0)"]
        ELSE [c EXCEPT !.value = "errors against the lane"]

\* MapAPI.is_off_road on the map object b
MapAPI_is_off_road(b, shapely, polygon_xy) ==
    IF polygon_xy = <<>> THEN TRUE
    ELSE IF b.checker = "present"
    THEN LET cx == (polygon_xy[1][1] + polygon_xy[2][1] + polygon_xy[3][1]
                    + polygon_xy[4][1]) \div 4
             cy == (polygon_xy[1][2] + polygon_xy[2][2] + polygon_xy[3][2]
                    + polygon_xy[4][2]) \div 4
         IN  ~(/\ Drivable.xmin <= cx /\ cx <= Drivable.xmax
               /\ Drivable.ymin <= cy /\ cy <= Drivable.ymax)
    ELSE IF ~shapely THEN FALSE
    ELSE IF b.drivable = "absent" THEN FALSE
    ELSE is_off_road(polygon_xy)

NoCall == [op |-> "none", provider |-> "none", error |-> "none", result |-> "none"]

\* nothing constructed
MapIdle ==
    /\ backend = <<>> /\ has_shapely = TRUE /\ objs = <<>> /\ last_call = NoCall

MapInit ==
    /\ backend \in Backends /\ has_shapely \in BOOLEAN
    /\ objs = <<>> /\ last_call = NoCall

\* SceneLoader(nuplan_db_path, map_root, scenario_provider)
ConstructSceneLoader ==
    /\ Len(objs) < MaxObjects
    /\ \E provider \in {"None", "callable"} :
         LET r == SceneLoader_init(provider)
         IN  /\ objs' = objs \o r.obj
             /\ last_call' = [op |-> "SceneLoader", provider |-> provider,
                              error |-> r.error, result |-> "none"]
    /\ UNCHANGED <<backend, has_shapely>>

\* MapAPI(map_root, map_name, map_provider)
ConstructMapAPI ==
    /\ Len(objs) < MaxObjects
    /\ \E provider \in {"None", "callable"} :
         LET r == MapAPI_init(provider)
         IN  /\ objs' = objs \o r.obj
             /\ last_call' = [op |-> "MapAPI", provider |-> provider,
                              error |-> r.error, result |-> "none"]
    /\ UNCHANGED <<backend, has_shapely>>

\* loader.load(scene_token) on an existing SceneLoader
LoadCall ==
    /\ \E i \in 1 .. Len(objs), n \in {0, 2} :
         /\ objs[i].cls = "SceneLoader"
         /\ last_call' =
              [op |-> "load", provider |-> objs[i].provider,
               error |-> IF objs[i].provider = "None" THEN "TypeError"
                         ELSE SceneLoader_load([num_iters |-> n, spacing |-> 1]).error,
               result |-> "none"]
    /\ UNCHANGED <<backend, has_shapely, objs>>

\* _compute_errors(map_api, x, y, yaw) on an existing MapAPI, from
\* control_fn or from Labeler.compute
ComputeErrorsCall ==
    /\ \E i \in 1 .. Len(objs) :
         /\ objs[i].cls = "MapAPI"
         /\ LET r == errors_from_map(backend)
            IN  last_call' = [op |-> "compute_errors", provider |-> objs[i].provider,
                              error |-> r.error,
                              result |-> [value |-> r.value,
                                          backend_raised |-> r.backend_raised]]
    /\ UNCHANGED <<backend, has_shapely, objs>>

\* map_api.is_off_road(polygon_xy) on an existing MapAPI
IsOffRoadCall ==
    /\ \E i \in 1 .. Len(objs), polygon_xy \in Footprints :
         /\ objs[i].cls = "MapAPI"
         /\ last_call' = [op |-> "is_off_road", provider |-> objs[i].provider,
                          error |-> "none",
                          result |-> [polygon_xy |-> polygon_xy,
                                      value |-> MapAPI_is_off_road(backend, has_shapely,
                                                                   polygon_xy)]]
    /\ UNCHANGED <<backend, has_shapely, objs>>

---------------------------------------------------------------------------
(* Simulator.rollout called with a control_fn of the caller                *)
(*                                                                         *)
(* Units are those of bicycle_model.step above.  The control functions and *)
(* the perturb_fn steer straight (steer 0), so that the heading stays one  *)
(* of the two for which cos and sin are tabulated.                         *)

\* control functions: the all-zero one of tests/test_sim.py, one that reads
\* the state it is given, one that reads t
ControlFns == {"zero", "by_state", "by_time"}

control_fn(name, state, tt) ==
    IF name = "zero" THEN [steer |-> 0, accel |-> 0]
    ELSE IF name = "by_state"
    THEN [steer |-> 0, accel |-> IF state.v >= 8 THEN -1 ELSE 2]
    ELSE [steer |-> 0, accel |-> IF tt = 0 THEN 3 ELSE -1]

\* the frame keeps the state step was called with
frame_state_BeforeStep(before, after) == before

\* rollout.py:42-43: state = step(...); SimFrame(t=t, state=state, ...)
frame_state(before, after) == after

\* rollout.py:38-44 on the locals c of the call
Simulator_rollout_iter(c) ==
    LET ctl == control_fn(c.control, c.state, c.t)
        p == IF c.perturb_fn.given
             THEN perturb_overlay(c.perturb_fn.p, c.t, ctl.steer, ctl.accel)
             ELSE [steer |-> ctl.steer, accel |-> ctl.accel, on |-> FALSE]
        after == step(c.state, p.steer, p.accel, c.dt, c.params)
    IN  [c EXCEPT !.given = Append(@, [state |-> c.state, t |-> c.t]),
                  !.state = after,
                  !.frames = Append(@, [t |-> c.t,
                                        state |-> frame_state(c.state, after),
                                        cmd_steer |-> p.steer,
                                        cmd_accel |-> p.accel,
                                        perturb_on |-> p.on]),
                  !.t = NextT(@, c.dt)]

\* a SimFrame in the units of Labeler.compute above
ToLabelFrame(f) ==
    [t |-> f.t, x |-> f.state.x \div 100, y |-> f.state.y \div 100,
     yaw |-> IF f.state.yaw = 0 THEN 0 ELSE 1, v |-> 10 * f.state.v]

SimAgent == [x |-> 140, y |-> 0, yaw |-> 0, v |-> 0, length |-> 40, width |-> 20]

\* the arguments of the calls
SimCalls ==
    [init : [x : {0}, y : {0, 500}, yaw : {0, 1571}, v : {0, 7, 14}],
     steps : 0 .. MaxSimSteps,
     dt : DtVals,
     params : {NoParams, [NoParams EXCEPT !.a_min = -2, !.a_max = 1]},
     control : ControlFns,
     perturb_fn : {[given |-> FALSE,
                    p |-> [start_t |-> 0, duration |-> 0, steer_delta |-> 0,
                           acc_delta |-> 0]],
                   [given |-> TRUE,
                    p |-> [start_t |-> 1, duration |-> 2, steer_delta |-> 0,
                           acc_delta |-> 1]]},
     \* internal.frames: an agent 14 m ahead of the first ego pose, in the
     \* first scenario frame or in the second
     scenario : {<<>>,
                 << [agents |-> <<SimAgent>>] >>,
                 << [agents |-> <<>>], [agents |-> <<SimAgent>>] >>}]

\* no call of rollout with such a control_fn
SimIdle == sim_call = <<>>

\* rollout.py:34-36: frames = [], state = init, t = 0.0
SimInit ==
    \E a \in SimCalls :
        sim_call = [pc |-> "loop", init |-> a.init, steps |-> a.steps, dt |-> a.dt,
                    params |-> a.params, control |-> a.control,
                    perturb_fn |-> a.perturb_fn, scenario |-> a.scenario,
                    state |-> a.init, t |-> 0, frames |-> <<>>, given |-> <<>>,
                    labels |-> DefaultLabels]

\* one iteration of the loop
SimStep ==
    /\ sim_call.pc = "loop"
    /\ LoopContinues(Len(sim_call.frames), sim_call.steps)
    /\ sim_call' = Simulator_rollout_iter(sim_call)

\* rollout.py:45: return frames
SimReturn ==
    /\ sim_call.pc = "loop"
    /\ ~LoopContinues(Len(sim_call.frames), sim_call.steps)
    /\ sim_call' = [sim_call EXCEPT !.pc = "done"]

\* run_pipeline.py:269-270: labeler.compute(sim_frames, internal.frames, map_api)
SimLabel ==
    /\ sim_call.pc = "done"
    /\ sim_call' =
          [sim_call EXCEPT
              !.pc = "labelled",
              !.labels = Labeler_compute(
                             [i \in 1 .. Len(sim_call.frames) |->
                                 ToLabelFrame(sim_call.frames[i])],
                             sim_call.scenario)]

---------------------------------------------------------------------------
(* A PIDController object                                                  *)
(*                                                                         *)
(* Gains, errors and dt are whole numbers; the errors are even and dt is   *)
(* -1, 0, 1 or 2, so that (error - prev_error)/dt is exact.                *)

PidConfigs == [kp : {1, 12}, ki : {0, 3}, kd : {0, 2}]
PidErrors == {-4, 2, 6}
PidDts == {-1, 0, 1, 2}

\* pid.py:14-17
PIDController_init(cfg) == [cfg |-> cfg, _integral |-> 0, _prev_error |-> 0]

\* a reset that leaves _prev_error as it is
PIDController_reset_IntegralOnly(self) == [self EXCEPT !._integral = 0]

\* pid.py:19-21
PIDController_reset(self) == [self EXCEPT !._integral = 0, !._prev_error = 0]

\* pid.py:23-27: the object after the call and the value returned
PIDController_step(self, error, d) ==
    LET integral == self._integral + error * d
        deriv == IF d > 0 THEN (error - self._prev_error) \div d ELSE 0
    IN  [self |-> [self EXCEPT !._integral = integral, !._prev_error = error],
         out |-> self.cfg.kp * error + self.cfg.ki * integral + self.cfg.kd * deriv]

\* no controller
PidIdle == pid_obj = <<>>

\* PIDController(PIDConfig(...))
PidInit ==
    \E cfg \in PidConfigs : pid_obj = [self |-> PIDController_init(cfg), log |-> <<>>]

\* pid.step(error, dt)
PidStepCall ==
    /\ Len(pid_obj.log) < MaxPidCalls
    /\ \E error \in PidErrors, d \in PidDts :
         LET r == PIDController_step(pid_obj.self, error, d)
         IN  pid_obj' = [self |-> r.self,
                         log |-> Append(pid_obj.log, [op |-> "step", error |-> error,
                                                      dt |-> d, out |-> r.out])]

\* pid.reset()
PidResetCall ==
    /\ Len(pid_obj.log) < MaxPidCalls
    /\ pid_obj' = [self |-> PIDController_reset(pid_obj.self),
                   log |-> Append(pid_obj.log, [op |-> "reset", error |-> 0,
                                                dt |-> 0, out |-> 0])]

---------------------------------------------------------------------------
(* _compute_errors called by control_fn and by Labeler.compute             *)
(*                                                                         *)
(* x, y and cte are in 0.1 m; yaw and heading_err are in units of pi/32,   *)
(* which stand for the 0.1 rad of the thresholds.  The centerline is the   *)
(* list lane_centerline returned.                                          *)

ErrCenterlines ==
    { <<>>, << <<0, 0>> >>, << <<0, 0>>, <<0, 0>> >>,
      << <<0, 0>>, <<100, 0>> >>, << <<100, 0>>, <<0, 0>> >>,
      << <<0, 0>>, <<0, 100>> >>, << <<0, 100>>, <<0, 0>> >>,
      << <<0, 0>>, <<100, 0>>, <<100, 100>> >> }

ErrPoses == [x : {0, 50, 112}, y : {0, 5, -9}, yaw : {-64, -33, -32, -16, 0, 1, 3, 16, 32, 48, 96}]

\* the callers: control_fn inside control_with_recovery, with the closure
\* and line 247's test, and Labeler.compute at a frame with
\* t >= recover_time, with its accumulator
ErrCallers ==
    [name : {"control_fn"}, recover_active : BOOLEAN, recover_ok_frames : {0, 1},
     forced : BOOLEAN, t : {0}, recovered : {FALSE}]
    \cup [name : {"Labeler.compute"}, recover_active : {FALSE}, recover_ok_frames : {0},
          forced : {FALSE}, t : {recover_time, recover_time + 2}, recovered : BOOLEAN]

\* no call of _compute_errors
ErrIdle == err_call = <<>>

\* run_pipeline.py:229, labeler.py:71: the call
ErrInit ==
    \E caller \in ErrCallers, centerline \in ErrCenterlines, pose \in ErrPoses :
        err_call = [pc |-> "called", caller |-> caller, centerline |-> centerline,
                    pose |-> pose, errors |-> <<0, 0>>, recovering |-> FALSE,
                    recover_active |-> caller.recover_active,
                    recover_ok_frames |-> caller.recover_ok_frames,
                    recovered |-> caller.recovered]

\* _compute_errors returns
ErrReturn ==
    /\ err_call.pc = "called"
    /\ err_call' = [err_call EXCEPT
                        !.pc = "returned",
                        !.errors = compute_errors(err_call.centerline, err_call.pose.x,
                                                  err_call.pose.y, err_call.pose.yaw)]

\* run_pipeline.py:230-264: the rest of the controller's step
ErrControl ==
    /\ err_call.pc = "returned" /\ err_call.caller.name = "control_fn"
    /\ LET c == recovery_control(
                    [recover_active |-> err_call.recover_active,
                     recover_ok_frames |-> err_call.recover_ok_frames,
                     recover_min_frames |-> 2, pid_prev_error |-> 0, dt |-> 1],
                    err_call.caller.forced, 7, err_call.errors[1], err_call.errors[2], 1)
       IN  err_call' = [err_call EXCEPT !.pc = "used",
                                        !.recovering = c.recovering,
                                        !.recover_active = c.active,
                                        !.recover_ok_frames = c.ok_frames]

\* labeler.py:72-73
ErrLabel ==
    /\ err_call.pc = "returned" /\ err_call.caller.name = "Labeler.compute"
    /\ err_call' = [err_call EXCEPT
                        !.pc = "used",
                        !.recovered = RecoveredFrom(err_call.recovered, err_call.errors)]

---------------------------------------------------------------------------
(* Specifications *)

\* the operations added after the three above are idle
LateIdle == SimIdle /\ PidIdle /\ ErrIdle
RestIdle == StepIdle /\ PairIdle /\ MainIdle /\ MapIdle /\ LateIdle

Init == RolloutInit /\ LabelIdle /\ SampleIdle /\ RestIdle

Next ==
    \/ (RolloutStep /\ UNCHANGED restVars)
    \/ (RolloutReturn /\ UNCHANGED restVars)

Spec == Init /\ [][Next]_vars

InitLabel == RolloutIdle /\ LabelInit /\ SampleIdle /\ RestIdle

NextLabel ==
    \/ (ComputeEmpty /\ UNCHANGED <<simVars, ctlVars, histVars, smpVars, restVars>>)
    \/ (ComputeBegin /\ UNCHANGED <<simVars, ctlVars, histVars, smpVars, restVars>>)
    \/ (ComputeFrame /\ UNCHANGED <<simVars, ctlVars, histVars, smpVars, restVars>>)
    \/ (ComputeReturn /\ UNCHANGED <<simVars, ctlVars, histVars, smpVars, restVars>>)
    \/ (ComputePermuted /\ UNCHANGED <<simVars, ctlVars, histVars, smpVars, restVars>>)

SpecLabel == InitLabel /\ [][NextLabel]_vars

InitSample == RolloutIdle /\ LabelIdle /\ SampleInit /\ RestIdle

NextSample == SampleCall /\ UNCHANGED <<simVars, ctlVars, histVars, labVars, restVars>>

SpecSample == InitSample /\ [][NextSample]_vars

\* the operations of the first three specifications are idle
CoreIdle == RolloutIdle /\ LabelIdle /\ SampleIdle
coreVars == <<simVars, ctlVars, histVars, labVars, smpVars>>

InitStep == CoreIdle /\ StepInit /\ PairIdle /\ MainIdle /\ MapIdle /\ LateIdle

NextStep ==
    StepCall /\ UNCHANGED <<coreVars, ro, pid_heap, order, m_in, mn, mapVars, lateVars>>

SpecStep == InitStep /\ [][NextStep]_vars

InitPair == CoreIdle /\ StepIdle /\ PairInit /\ MainIdle /\ MapIdle /\ LateIdle

NextPair == PairStep /\ UNCHANGED <<coreVars, bmVars, m_in, mn, mapVars, lateVars>>

SpecPair == InitPair /\ [][NextPair]_vars

InitMain == CoreIdle /\ StepIdle /\ PairIdle /\ MainInit /\ MapIdle /\ LateIdle

NextMain ==
    \/ (MainLoad /\ UNCHANGED <<coreVars, bmVars, ro, pid_heap, order, mapVars, lateVars>>)
    \/ (MainPrepare /\ UNCHANGED <<coreVars, bmVars, ro, pid_heap, order, mapVars, lateVars>>)
    \/ (MainRun /\ UNCHANGED <<coreVars, bmVars, ro, pid_heap, order, mapVars, lateVars>>)

SpecMain == InitMain /\ [][NextMain]_vars

InitMap == CoreIdle /\ StepIdle /\ PairIdle /\ MainIdle /\ MapInit /\ LateIdle

\* what the calls on SceneLoader and MapAPI objects leave alone
mapRest == <<coreVars, bmVars, ro, pid_heap, order, m_in, mn, lateVars>>

NextMap ==
    \/ (ConstructSceneLoader /\ UNCHANGED mapRest)
    \/ (ConstructMapAPI /\ UNCHANGED mapRest)
    \/ (LoadCall /\ UNCHANGED mapRest)
    \/ (ComputeErrorsCall /\ UNCHANGED mapRest)
    \/ (IsOffRoadCall /\ UNCHANGED mapRest)

SpecMap == InitMap /\ [][NextMap]_vars

\* everything but the rollout with a caller's control_fn is idle
simRest == <<coreVars, bmVars, ro, pid_heap, order, m_in, mn, mapVars, pid_obj, err_call>>

InitSim ==
    /\ CoreIdle /\ StepIdle /\ PairIdle /\ MainIdle /\ MapIdle
    /\ SimInit /\ PidIdle /\ ErrIdle

NextSim ==
    \/ (SimStep /\ UNCHANGED simRest)
    \/ (SimReturn /\ UNCHANGED simRest)
    \/ (SimLabel /\ UNCHANGED simRest)

SpecSim == InitSim /\ [][NextSim]_vars

\* everything but the PIDController object is idle
pidRest == <<coreVars, bmVars, ro, pid_heap, order, m_in, mn, mapVars, sim_call, err_call>>

InitPid ==
    /\ CoreIdle /\ StepIdle /\ PairIdle /\ MainIdle /\ MapIdle
    /\ SimIdle /\ PidInit /\ ErrIdle

NextPid ==
    \/ (PidStepCall /\ UNCHANGED pidRest)
    \/ (PidResetCall /\ UNCHANGED pidRest)

SpecPid == InitPid /\ [][NextPid]_vars

\* everything but the call of _compute_errors is idle
errRest == <<coreVars, bmVars, ro, pid_heap, order, m_in, mn, mapVars, sim_call, pid_obj>>

InitErr ==
    /\ CoreIdle /\ StepIdle /\ PairIdle /\ MainIdle /\ MapIdle
    /\ SimIdle /\ PidIdle /\ ErrInit

NextErr ==
    \/ (ErrReturn /\ UNCHANGED errRest)
    \/ (ErrControl /\ UNCHANGED errRest)
    \/ (ErrLabel /\ UNCHANGED errRest)

SpecErr == InitErr /\ [][NextErr]_vars


---------------------------------------------------------------------------
(* Properties of the pipeline rollout (Spec) *)

\* The commands of frame f are those of the RECOVERING branch (steer scaled
\* by pid_gain_scale, deceleration forced above desired_speed_recover),
\* with the perturbation's deltas on top when perturb_on.
RecoveringBehaviour(f) ==
    /\ f.recovering
    /\ f.cmd_steer = recover_gain * f.base_steer
                     + (IF f.perturb_on THEN perturb.steer_delta ELSE 0)
    /\ f.cmd_accel = (IF f.v_before > recover_speed
                      THEN Min(f.base_accel, -1) ELSE f.base_accel)
                     + (IF f.perturb_on THEN perturb.acc_delta ELSE 0)

\* The commands of frame f are the base commands, with the deltas on top.
NormalBehaviour(f) ==
    /\ ~f.recovering
    /\ f.cmd_steer = f.base_steer
                     + (IF f.perturb_on THEN perturb.steer_delta ELSE 0)
    /\ f.cmd_accel = f.base_accel
                     + (IF f.perturb_on THEN perturb.acc_delta ELSE 0)

\* C1 (as claimed): whenever a step ends an episode of RECOVERING, the last
\* min_frames steps were all good frames and all of them lie at or after
\* the step that entered RECOVERING.
C1_ExitNeedsMinFrames ==
    exited_now => good_since_entry >= recover_min_frames

\* C2 (as claimed): every step taken while the perturbation is active
\* (start_t <= t <= start_t + duration) applies the RECOVERING behaviour.
C2_ForcedWhilePerturbed ==
    (last.t >= 0 /\ last.perturb_on) => RecoveringBehaviour(last)

\* C2 (amended): a step taken while the perturbation is active applies the
\* RECOVERING behaviour exactly when the controller was already RECOVERING,
\* or an error exceeds its threshold, or t has reached start_t + duration
\* (where the trailing window begins); otherwise it applies the base
\* commands: the active perturbation alone does not force RECOVERING.
C2_PerturbedStepMode ==
    (last.t >= 0 /\ last.perturb_on) =>
        IF \/ last.was_active
           \/ Abs(last.cte) > recover_cte
           \/ Abs(last.heading_err) > recover_yaw
           \/ last.t >= perturb.start_t + perturb.duration
        THEN RecoveringBehaviour(last)
        ELSE NormalBehaviour(last)

\* a step during the perturbation, before its end, from NORMAL with small
\* errors: it ran the base commands
C2_Witness ==
    /\ last.t >= 0 /\ last.perturb_on
    /\ last.t < perturb.start_t + perturb.duration
    /\ ~last.was_active
    /\ Abs(last.cte) <= recover_cte /\ Abs(last.heading_err) <= recover_yaw
    /\ NormalBehaviour(last)
    /\ last.base_steer # 0

\* C3: every step whose t lies in the trailing window
\* [start_t + duration, start_t + duration + window_sec] applies the
\* RECOVERING behaviour, whatever the errors and the good-frame counter.
C3_ForcedInWindow ==
    (/\ last.t >= 0
     /\ perturb.start_t + perturb.duration <= last.t
     /\ last.t <= perturb.start_t + perturb.duration + recover_window)
        => RecoveringBehaviour(last)

\* a step strictly inside the trailing window, entered from NORMAL on a good
\* frame with the counter already at min_frames: RECOVERING behaviour ran
C3_Witness ==
    /\ last.t > perturb.start_t + perturb.duration
    /\ last.t <= perturb.start_t + perturb.duration + recover_window
    /\ ~last.was_active
    /\ GoodFrame(last.cte, last.heading_err)
    /\ recover_ok_frames > recover_min_frames
    /\ last.recovering
    /\ last.base_steer # 0

\* C4: rollout never holds more than steps frames, has called control_fn
\* once per frame, the i-th frame (0-based) carries t = i*dt, and on return
\* there are exactly steps frames.
C4_ExactlyStepsFrames ==
    /\ Len(frames) <= steps
    /\ ctrl_calls = Len(frames)
    /\ \A i \in 1 .. Len(frames) : frames[i].t = (i - 1) * dt
    /\ \A i \in 1 .. Len(frames) - 1 : frames[i + 1].t = frames[i].t + dt
    /\ Len(frames) > 0 => frames[1].t = 0 /\ last.t = frames[Len(frames)].t
    /\ pc = "done" => Len(frames) = steps /\ ctrl_calls = steps

\* a returned rollout of MaxSteps frames with dt = 2, some perturbed
C4_Witness ==
    /\ pc = "done" /\ steps = MaxSteps /\ dt = 2
    /\ Len(frames) = MaxSteps
    /\ \E i \in 1 .. Len(frames) : frames[i].perturb_on

\* C15: when rollout is given main's perturb_fn, a frame has perturb_on
\* exactly when start_t <= t <= start_t + duration; steer_delta and
\* acc_delta are added to the commands control_with_recovery returned for
\* exactly those frames, and nothing is added for the others.  Without a
\* perturb_fn no frame has perturb_on.
C15_OverlayExactlyInInterval ==
    /\ \A i \in 1 .. Len(frames) :
          frames[i].perturb_on =
             (/\ perturb_fn_given
              /\ perturb.start_t <= frames[i].t
              /\ frames[i].t <= perturb.start_t + perturb.duration)
    /\ last.t >= 0 =>
          LET mode_steer == IF last.recovering THEN recover_gain * last.base_steer
                            ELSE last.base_steer
              mode_accel == IF last.recovering /\ last.v_before > recover_speed
                            THEN Min(last.base_accel, -1) ELSE last.base_accel
          IN  /\ last.perturb_on = frames[Len(frames)].perturb_on
              /\ last.cmd_steer - mode_steer
                    = (IF last.perturb_on THEN perturb.steer_delta ELSE 0)
              /\ last.cmd_accel - mode_accel
                    = (IF last.perturb_on THEN perturb.acc_delta ELSE 0)

\* a rollout with a frame before the perturbation, a perturbed frame at
\* t = start_t + duration exactly, and its last frame after it, unperturbed
C15_Witness ==
    /\ pc = "done" /\ perturb_fn_given /\ Len(frames) >= 3
    /\ ~frames[1].perturb_on
    /\ \E i \in 2 .. Len(frames) - 1 :
          frames[i].perturb_on /\ frames[i].t = perturb.start_t + perturb.duration
    /\ ~last.perturb_on /\ last.t > perturb.start_t + perturb.duration
    /\ perturb.steer_delta # 0 /\ perturb.acc_delta # 0

\* C23: a step taken in NORMAL runs in RECOVERING, with the RECOVERING
\* gains applied in that same step, exactly when |cte| > cte_threshold or
\* |heading_err| > yaw_threshold or t lies in the forced window; the
\* controller is then RECOVERING after the step unless the good-frame
\* counter reached min_frames in it.  Otherwise the step leaves the
\* controller NORMAL and returns the base steer and accel unscaled.
C23_EntryIntoRecovering ==
    (last.t >= 0 /\ ~last.was_active) =>
        LET trigger ==
                \/ Abs(last.cte) > recover_cte
                \/ Abs(last.heading_err) > recover_yaw
                \/ /\ perturb.start_t + perturb.duration <= last.t
                   /\ last.t <= perturb.start_t + perturb.duration + recover_window
        IN  IF trigger
            THEN /\ RecoveringBehaviour(last)
                 /\ recover_active = ~(recover_ok_frames >= recover_min_frames)
            ELSE /\ NormalBehaviour(last)
                 /\ ~recover_active

\* a step from NORMAL, outside the forced window, with cte within its
\* threshold and heading_err beyond its own: it ran with the RECOVERING
\* gains and left the controller RECOVERING
C23_Witness ==
    /\ last.t >= 0 /\ ~last.was_active
    /\ ~(/\ perturb.start_t + perturb.duration <= last.t
         /\ last.t <= perturb.start_t + perturb.duration + recover_window)
    /\ Abs(last.cte) <= recover_cte /\ Abs(last.heading_err) > recover_yaw
    /\ last.recovering /\ recover_active
    /\ last.cmd_steer = recover_gain * last.base_steer /\ last.base_steer # 0

\* C24 (as claimed): on every step that runs in RECOVERING from a speed
\* above desired_speed_recover, the acceleration handed to the vehicle model
\* and recorded as cmd_accel is at most -1.0, the perturbation active or not.
C24_ForcedDecelerationReachesVehicle ==
    (last.t >= 0 /\ last.recovering /\ last.v_before > recover_speed)
        => last.cmd_accel <= -1

\* C25: a step that runs in RECOVERING adds one to the good-frame counter
\* when |cte| <= eps_cte and |heading_err| <= eps_yaw and sets it to zero
\* otherwise, and leaves the controller NORMAL exactly when the counter has
\* then reached min_frames; a step that runs in NORMAL leaves the counter
\* as it is, and so does the return of rollout.  Entering RECOVERING and
\* leaving it do not reset the counter.
C25_CounterRule ==
    [][IF frames' # frames
       THEN IF last'.recovering
            THEN /\ recover_ok_frames' =
                       (IF /\ Abs(last'.cte) <= eps_cte
                           /\ Abs(last'.heading_err) <= eps_yaw
                        THEN recover_ok_frames + 1 ELSE 0)
                 /\ recover_active' = ~(recover_ok_frames' >= recover_min_frames)
            ELSE /\ recover_ok_frames' = recover_ok_frames
                 /\ ~recover_active'
       ELSE recover_ok_frames' = recover_ok_frames /\ recover_active' = recover_active
      ]_vars

\* a step entered RECOVERING from NORMAL on a good frame with the counter
\* of an earlier episode still at min_frames, counted on from it and left
\* RECOVERING at once; an earlier bad frame had set the counter to zero
C25_Witness ==
    /\ last.t >= 0 /\ ~last.was_active /\ last.recovering
    /\ GoodFrame(last.cte, last.heading_err)
    /\ recover_ok_frames = recover_min_frames + 1
    /\ exited_now /\ ~recover_active
    /\ Len(frames) = MaxSteps

\* C26 (as claimed): on a step where the perturbation is active and the
\* controller runs in RECOVERING, the deltas are added before the recovery
\* scaling: cmd_steer = pid_gain_scale * (PID output + steer_delta), and the
\* forced-deceleration clamp applies to IDM output + acc_delta.
C26_OverlayBeforeRecovery ==
    (last.t >= 0 /\ last.perturb_on /\ last.recovering) =>
        /\ last.cmd_steer = recover_gain * (last.base_steer + perturb.steer_delta)
        /\ last.cmd_accel =
              (IF last.v_before > recover_speed
               THEN Min(last.base_accel + perturb.acc_delta, -1)
               ELSE last.base_accel + perturb.acc_delta)

---------------------------------------------------------------------------
(* Properties of Labeler.compute (SpecLabel) *)

\* the (sim frame, agent) pairs among the first n sim frames
AgentPairs(n) ==
    {<<i, k>> \in (1 .. n) \X (1 .. 3) :
        /\ i <= Len(sim_frames) /\ i <= Len(scenario_frames)
        /\ k <= Len(scenario_frames[i].agents)}

\* distance / rel_speed of the pair <<i, k>>
PairTtc(pr) ==
    LET sim == sim_frames[pr[1]]
        agent == scenario_frames[pr[1]].agents[pr[2]]
    IN  Frac(sqrt2(agent.x - sim.x, agent.y - sim.y), sim.v - agent.v)

PairRelSpeed(pr) ==
    sim_frames[pr[1]].v - scenario_frames[pr[1]].agents[pr[2]].v

\* C5: within one call of compute the accumulators collision, off_road and
\* is_recovered never go from true back to false and min_ttc never
\* increases; min_ttc is +inf before the first frame; the Labels returned
\* are the accumulators after the last frame.
C5_MonotoneLabels ==
    /\ [](idx = 0 => min_ttc = Inf /\ ~collision /\ ~off_road /\ ~recovered)
    /\ [][/\ collision => collision'
          /\ off_road => off_road'
          /\ recovered => recovered'
          /\ ~FracLess(min_ttc, min_ttc')
          /\ (lab_pc # "returned" /\ lab_pc' = "returned") =>
                (/\ idx' = Len(sim_frames)
                 /\ labels' = [collision |-> collision', off_road |-> off_road',
                               is_recovered |-> recovered', min_ttc |-> min_ttc'])
         ]_vars

\* a call returned collision, off_road and a finite min_ttc, all set by its
\* first frame, although its last frame, alone, sets none of them
C5_Witness ==
    /\ lab_pc = "returned" /\ Len(sim_frames) = 2
    /\ labels.collision /\ labels.off_road /\ labels.min_ttc # Inf
    /\ FrameUpdate(DefaultLabels, sim_frames[2], 1, scenario_frames) = DefaultLabels

\* C6: min_ttc changes only on a frame that holds a pair with
\* rel_speed > 0.1, and then to distance / rel_speed of such a pair; it is
\* +inf as long as no processed pair is closing, and when finite it is the
\* distance / rel_speed of a processed closing pair and is >= 0.
C6_TtcOnlyWhenClosing ==
    /\ [](LET S == {PairTtc(pr) : pr \in {q \in AgentPairs(idx) : PairRelSpeed(q) > 1}}
          IN  /\ IF S = {} THEN min_ttc = Inf ELSE min_ttc \in S
              /\ min_ttc # Inf => min_ttc.num >= 0 /\ min_ttc.den > 0
              /\ lab_pc \in {"returned", "compared"} => labels.min_ttc = min_ttc)
    /\ [][min_ttc' # min_ttc =>
            \E pr \in AgentPairs(idx') :
                /\ pr[1] = idx'
                /\ PairRelSpeed(pr) > 1
                /\ min_ttc' = PairTtc(pr)
         ]_vars

\* a call returned a finite min_ttc after a pair with rel_speed = 0.1
\* exactly and a pair moving apart
C6_Witness ==
    /\ lab_pc = "returned" /\ labels.min_ttc # Inf
    /\ \E pr \in AgentPairs(idx) : PairRelSpeed(pr) = 1
    /\ \E pr \in AgentPairs(idx) : PairRelSpeed(pr) < 0

\* the scenario of the example: one sim frame, ego at (0,0), yaw 0, v = 1;
\* one agent at (5,0), yaw 0, 4 x 2, v = 0
Example3 ==
    /\ sim_frames = << [t |-> 0, x |-> 0, y |-> 0, yaw |-> 0, v |-> 10] >>
    /\ scenario_frames = << [agents |-> << LabelAgents.a1 >>] >>
    /\ lab_pc = "returned"

\* C7 (as claimed): in the example compute reports collision = false and
\* min_ttc = 2.6.
C7_Example3Ttc26 ==
    Example3 => labels.collision = FALSE /\ labels.min_ttc = [num |-> 13, den |-> 5]

\* C7 (amended): in the example compute reports collision = false and
\* min_ttc = 5.0, the distance of 5 m between the two centres over the
\* closing speed 1.
C7_Example3Ttc5 ==
    Example3 => labels.collision = FALSE /\ labels.min_ttc = [num |-> 5, den |-> 1]

\* the example's call has returned, with min_ttc = 5.0 and no collision
C7_Witness ==
    Example3 /\ labels.min_ttc = [num |-> 5, den |-> 1] /\ ~labels.collision

\* C8 (as claimed): compute on any permutation of sim_frames returns the
\* Labels of the original order.
C8_PermutationInvariant ==
    lab_pc = "compared" => labels_perm = labels

\* C8 (amended): compute on any permutation of sim_frames returns the same
\* off_road and is_recovered; collision and min_ttc are those of the
\* original order too when scenario_frames holds one frame per sim frame
\* and is permuted the same way.
C8_PermutationOfPairs ==
    lab_pc = "compared" =>
        /\ labels_perm.off_road = labels.off_road
        /\ labels_perm.is_recovered = labels.is_recovered
        /\ Len(scenario_frames) = Len(sim_frames) => labels_joint = labels

\* a swap of two sim frames that changes collision and min_ttc, not
\* off_road and is_recovered, and changes nothing when the scenario frames
\* are swapped too
C8_Witness ==
    /\ lab_pc = "compared" /\ Len(sim_frames) = 2 /\ Len(scenario_frames) = 2
    /\ perm = <<2, 1>>
    /\ labels_perm.collision # labels.collision
    /\ labels_perm.min_ttc # labels.min_ttc
    /\ labels.off_road /\ labels.is_recovered
    /\ labels_joint = labels

\* the pose of sim is within (eps_cte, eps_yaw) of the centerline
WithinTolerance(sim) ==
    LET e == _compute_errors(sim.x, sim.y, sim.yaw)
    IN  Abs(e[1]) <= eps_cte /\ Abs(e[2]) <= eps_yaw

\* C14: after any number of frames, recovered is true exactly when one of
\* the frames processed has t >= recover_time and a pose within tolerance;
\* the is_recovered returned is that of all the sim frames.
C14_RecoveredIffLateGoodFrame ==
    /\ recovered = (\E i \in 1 .. idx :
                       sim_frames[i].t >= recover_time /\ WithinTolerance(sim_frames[i]))
    /\ lab_pc \in {"returned", "compared"} =>
         labels.is_recovered =
            (\E i \in 1 .. Len(sim_frames) :
                sim_frames[i].t >= recover_time /\ WithinTolerance(sim_frames[i]))

\* a call returned is_recovered = true from a frame at t = recover_time
\* within tolerance, followed by a later frame outside tolerance
C14_Witness ==
    /\ lab_pc = "returned" /\ Len(sim_frames) = 2
    /\ sim_frames[1].t = recover_time /\ WithinTolerance(sim_frames[1])
    /\ sim_frames[2].t > recover_time /\ ~WithinTolerance(sim_frames[2])
    /\ labels.is_recovered

---------------------------------------------------------------------------
(* Properties of PerturbationFactory.sample (SpecSample) *)

\* C9: two calls of sample with the same scene_token, on the same factory
\* or on two factories built from the same config, return equal
\* Perturbations, whatever calls were made before and between them.
C9_SampleDeterministic ==
    \A i, j \in 1 .. Len(calls) :
        calls[i].scene_token = calls[j].scene_token => calls[i].p = calls[j].p

\* two calls for one scene on two factories, each with three draws of the
\* generator, the first of which left a generator that is not the one the
\* second starts from
C9_Witness ==
    /\ Len(calls) = 2
    /\ calls[1].scene_token = calls[2].scene_token
    /\ calls[1].factory # calls[2].factory
    /\ calls[1].p = calls[2].p
    /\ Len(factory_config[1].types) = 2
    /\ calls[1].p.kind = "impulse"
    /\ factory_config[1].impulse.duration_sec.k = "range"
    /\ rng # random_Random(rng, _seed_from(calls[1].scene_token, factory_config[1].seed))

\* C10 (as claimed): every Perturbation returned by sample has
\* duration >= 0, for every configuration.
C10_DurationNonNegative ==
    \A i \in 1 .. Len(calls) : calls[i].p.duration >= 0

\* C11 (as claimed): the generator seed of a call keeps every bit of the
\* digest prefix: had the global seed differed from the configured one in
\* any bit of that width, the generator seed of the call would differ too.
C11_SeedKeepsDigestWidth ==
    \A i \in 1 .. Len(calls) : \A g \in GlobalSeeds :
        LET configured == factory_config[calls[i].factory].seed
        IN  (g % Pow2(DigestBits) # configured % Pow2(DigestBits))
                => _seed_from(calls[i].scene_token, g) # calls[i].seed

---------------------------------------------------------------------------
(* Properties of bicycle_model.step (SpecStep) *)

\* C12: every call of step returns (it raises nothing); the speed gained
\* lies in [a_min*dt, a_max*dt] and equals accel*dt when accel is within
\* the limits; the heading gained is that of the steering angle clamped to
\* [-steer_limit, steer_limit], so it never exceeds what steer_limit gives
\* at that speed; the caller's state object is left as it was.
C12_StepClamps ==
    /\ [](bm_pc \in {"idle", "called", "returned"})
    /\ [][bm_state' = bm_state]_vars
    /\ [](bm_pc = "returned" =>
            LET p == bm_params
                dv == bm_result.v - bm_state.v
                dyaw == bm_result.yaw - bm_state.yaw
                lim == (10 * bm_state.v * tan1000(p.steer_limit) * bm_dt) \div p.wheel_base
                used == IF bm_steer > p.steer_limit THEN p.steer_limit
                        ELSE IF bm_steer < -p.steer_limit THEN -p.steer_limit
                        ELSE bm_steer
            IN  /\ p.a_min * bm_dt <= dv /\ dv <= p.a_max * bm_dt
                /\ (p.a_min <= bm_accel /\ bm_accel <= p.a_max) => dv = bm_accel * bm_dt
                /\ dyaw = (10 * bm_state.v * tan1000(used) * bm_dt) \div p.wheel_base
                /\ -lim - 1 <= dyaw /\ dyaw <= lim)

\* a call with steer above steer_limit and accel below a_min has returned,
\* with the heading and the speed changed by what the limits give
C12_Witness ==
    /\ bm_pc = "returned"
    /\ bm_steer > bm_params.steer_limit /\ bm_accel < bm_params.a_min
    /\ bm_state.v > 0 /\ bm_dt = 2
    /\ bm_result.v = bm_state.v + bm_params.a_min * bm_dt
    /\ bm_result.yaw > bm_state.yaw
    /\ bm_result.x # bm_state.x

---------------------------------------------------------------------------
(* Properties of Simulator.rollout with a caller's control_fn (SpecSim) *)

\* C22: in a rollout with the all-zero control function and no perturb_fn
\* that starts at yaw = 0 with v > 0, every frame has the v, yaw and y of
\* the initial state, and the x of each frame is v*dt (in mm: 1000*v*dt)
\* more than the x before it, the initial x for the first frame; so x is
\* strictly increasing along the frames.
C22_ZeroControlStraight ==
    (/\ sim_call # <<>>
     /\ sim_call.control = "zero" /\ ~sim_call.perturb_fn.given
     /\ sim_call.init.yaw = 0 /\ sim_call.init.v > 0)
        => \A i \in 1 .. Len(sim_call.frames) :
              LET f == sim_call.frames[i].state
                  x_before == IF i = 1 THEN sim_call.init.x
                              ELSE sim_call.frames[i - 1].state.x
              IN  /\ f.v = sim_call.init.v
                  /\ f.yaw = sim_call.init.yaw
                  /\ f.y = sim_call.init.y
                  /\ f.x = x_before + 1000 * sim_call.init.v * sim_call.dt
                  /\ f.x > x_before

\* a rollout of MaxSimSteps steps with the all-zero control function has
\* returned, from v = 7 with dt = 2 and y = 0.5 m
C22_Witness ==
    /\ sim_call # <<>> /\ sim_call.pc = "done"
    /\ sim_call.control = "zero" /\ ~sim_call.perturb_fn.given
    /\ sim_call.init = [x |-> 0, y |-> 500, yaw |-> 0, v |-> 7]
    /\ sim_call.dt = 2 /\ Len(sim_call.frames) = MaxSimSteps
    /\ sim_call.frames[MaxSimSteps].state.x = MaxSimSteps * 14000

\* the ego footprint at state st meets the footprint of an agent of the
\* scenario frame scen_frame
MeetsAgent(st, scen_frame) ==
    \E k \in 1 .. Len(scen_frame.agents) :
        LET a == scen_frame.agents[k]
        IN  intersects(_box_polygon(st.x \div 100, st.y \div 100,
                                    IF st.yaw = 0 THEN 0 ELSE 1, ego_length, ego_width),
                       _box_polygon(a.x, a.y, a.yaw, a.length, a.width))

\* C29: the i-th frame (0-based) carries t = i*dt, the commands computed
\* from the state after i steps and that t, and the state after i+1 steps;
\* the state after 0 steps, the initial state, is handed to control_fn but
\* is in no frame (a frame equals it only if the vehicle stands still);
\* and Labeler.compute's collision is that of the state after i+1 steps
\* against the agents of scenario frame i.
C29_FrameHoldsPostStepState ==
    sim_call # <<>> =>
        LET c == sim_call
            n == Len(c.frames)
        IN  /\ Len(c.given) = n
            /\ \A i \in 1 .. n :
                  LET f == c.frames[i]
                      before == IF i = 1 THEN c.init ELSE c.frames[i - 1].state
                      ctl == control_fn(c.control, before, (i - 1) * c.dt)
                      on == /\ c.perturb_fn.given
                            /\ c.perturb_fn.p.start_t <= f.t
                            /\ f.t <= c.perturb_fn.p.start_t + c.perturb_fn.p.duration
                  IN  /\ f.t = (i - 1) * c.dt
                      /\ c.given[i] = [state |-> before, t |-> f.t]
                      /\ f.cmd_steer
                            = ctl.steer + (IF on THEN c.perturb_fn.p.steer_delta ELSE 0)
                      /\ f.cmd_accel
                            = ctl.accel + (IF on THEN c.perturb_fn.p.acc_delta ELSE 0)
                      /\ f.state = step(before, f.cmd_steer, f.cmd_accel, c.dt, c.params)
                      /\ c.init.v # 0 => f.state # c.init
            /\ c.pc = "labelled" =>
                  c.labels.collision =
                     (\E i \in 1 .. n :
                         /\ i <= Len(c.scenario)
                         /\ MeetsAgent(c.frames[i].state, c.scenario[i]))

\* a labelled rollout under the control function that reads the state:
\* collision is reported for the agent of the first scenario frame, which
\* the state after one step meets and the initial state does not
C29_Witness ==
    /\ sim_call # <<>> /\ sim_call.pc = "labelled"
    /\ sim_call.control = "by_state" /\ Len(sim_call.frames) = MaxSimSteps
    /\ Len(sim_call.scenario) = 1
    /\ sim_call.labels.collision
    /\ MeetsAgent(sim_call.frames[1].state, sim_call.scenario[1])
    /\ ~MeetsAgent(sim_call.init, sim_call.scenario[1])
    /\ sim_call.frames[2].cmd_accel # sim_call.frames[1].cmd_accel

---------------------------------------------------------------------------
(* Properties of a PIDController object (SpecPid) *)

\* the calls of log up to the i-th that came after the last reset before it
\* (all of them when there was none), the i-th included
RECURSIVE SinceReset(_, _)
SinceReset(log, i) ==
    IF i = 0 \/ log[i].op = "reset" THEN <<>>
    ELSE Append(SinceReset(log, i - 1), log[i])

\* the sum of error*dt over the calls of a list
RECURSIVE SumErrorDt(_)
SumErrorDt(cs) ==
    IF cs = <<>> THEN 0
    ELSE SumErrorDt(SubSeq(cs, 1, Len(cs) - 1)) + cs[Len(cs)].error * cs[Len(cs)].dt

\* C28: every call step(error, dt) returns kp*error + ki*I + kd*D, where I
\* is the sum of error*dt over the step calls since construction or the
\* last reset, this one included, and D is (error - the error of the step
\* call before it, 0 when it is the first since construction or reset)/dt
\* when dt > 0 and 0 otherwise; with ki = kd = 0 it returns kp*error.  What
\* came before a reset has no part in it.
C28_PidOutput ==
    pid_obj # <<>> =>
        \A i \in 1 .. Len(pid_obj.log) :
            LET c == pid_obj.log[i]
                cfg == pid_obj.self.cfg
                cs == SinceReset(pid_obj.log, i)
                prev == IF Len(cs) > 1 THEN cs[Len(cs) - 1].error ELSE 0
                D == IF c.dt > 0 THEN (c.error - prev) \div c.dt ELSE 0
            IN  c.op = "step" =>
                    /\ c.out = cfg.kp * c.error + cfg.ki * SumErrorDt(cs) + cfg.kd * D
                    /\ (cfg.ki = 0 /\ cfg.kd = 0) => c.out = cfg.kp * c.error

\* with ki and kd nonzero: a step, a reset, and a step with dt = 2 whose
\* output is that of a new controller
C28_Witness ==
    /\ pid_obj # <<>> /\ Len(pid_obj.log) = 3
    /\ pid_obj.self.cfg = [kp |-> 12, ki |-> 3, kd |-> 2]
    /\ pid_obj.log[1].op = "step" /\ pid_obj.log[1].error = 6 /\ pid_obj.log[1].dt = 1
    /\ pid_obj.log[2].op = "reset"
    /\ pid_obj.log[3] = [op |-> "step", error |-> 2, dt |-> 2, out |-> 24 + 12 + 2]

---------------------------------------------------------------------------
(* Properties of _compute_errors (SpecErr) *)

\* C27 (as claimed): for every pose and every centerline of two points or
\* more, the heading error _compute_errors returns lies in (-pi, pi]: it is
\* never -pi and never outside the interval.
C27_HeadingErrInHalfOpenInterval ==
    (/\ err_call # <<>> /\ err_call.pc \in {"returned", "used"}
     /\ Len(err_call.centerline) >= 2)
        => -PI < err_call.errors[2] /\ err_call.errors[2] <= PI

\* C30: when lane_centerline returned fewer than two points,
\* _compute_errors returns (0, 0) whatever the pose; the controller's step
\* then runs in RECOVERING only if it was RECOVERING already or t is in the
\* forced window, and if it does it adds one to the good-frame counter;
\* Labeler.compute, which asks at frames with t >= recover_time only, sets
\* recovered.
C30_NoLaneIsZeroError ==
    (err_call # <<>> /\ Len(err_call.centerline) < 2) =>
        /\ err_call.pc \in {"returned", "used"} => err_call.errors = <<0, 0>>
        /\ (err_call.pc = "used" /\ err_call.caller.name = "control_fn") =>
              /\ err_call.recovering
                    = (err_call.caller.recover_active \/ err_call.caller.forced)
              /\ err_call.recover_ok_frames
                    = (IF err_call.recovering
                       THEN err_call.caller.recover_ok_frames + 1
                       ELSE err_call.caller.recover_ok_frames)
        /\ (err_call.pc = "used" /\ err_call.caller.name = "Labeler.compute") =>
              /\ err_call.caller.t >= recover_time
              /\ err_call.recovered

\* Labeler.compute, not recovered so far, asked for the errors of a pose
\* 11.2 m and a half turn away from the origin on a map that gave a
\* one-point centerline, and set recovered
C30_Witness ==
    /\ err_call # <<>> /\ err_call.pc = "used"
    /\ err_call.caller.name = "Labeler.compute" /\ ~err_call.caller.recovered
    /\ Len(err_call.centerline) = 1
    /\ err_call.pose = [x |-> 112, y |-> -9, yaw |-> 32]
    /\ err_call.errors = <<0, 0>> /\ err_call.recovered

---------------------------------------------------------------------------
(* Properties of two rollouts under way at once (SpecPair) *)

\* C13: however the steps of the two rollouts are interleaved, the frames
\* each rollout has produced so far are the first frames of the sequence it
\* produces when it runs alone from a controller that was reset, and on its
\* last step they are that whole sequence.
C13_InterleavingIndependent ==
    ro # <<>> =>
        \A r \in Rollouts :
            LET alone == run_alone(InitialClosure(ro[r].inp), 0)
                n == Len(ro[r].frames)
            IN  /\ Len(alone) = ro[r].inp.steps
                /\ n <= Len(alone)
                /\ ro[r].frames = SubSeq(alone, 1, n)

\* both rollouts have finished after alternating step by step, on different
\* errors, so that each controller's _prev_error was nonzero and unlike the
\* other's when the second steps were taken
C13_Witness ==
    /\ order = <<1, 2, 1, 2>>
    /\ \A r \in Rollouts : Len(ro[r].frames) = ro[r].inp.steps
    /\ ro[1].inp.script[1][1] # ro[2].inp.script[1][1]
    /\ ro[1].inp.script[1][1] # 0 /\ ro[2].inp.script[1][1] # 0
    /\ ro[1].frames # ro[2].frames
    /\ pid_heap[1] # pid_heap[2]

---------------------------------------------------------------------------
(* Properties of main (SpecMain) *)

\* the step count duration_steps yields, for the configs of MainInputs
\* (a fixed count or none)
StepCount == _sample_int_range(0, m_in.config.impulse.duration_steps).v

\* C16 (as claimed): when duration_sec is zero or absent and duration_steps
\* yields k > 0, the sampled duration is k times the dt main passes to
\* sim.rollout; it is k seconds only when no dt is available at all
\* (none in the config, none from the scenario's frames).
C16_DurationInRolloutSteps ==
    (/\ mn.sampled
     /\ _sample_range(0, m_in.config.impulse.duration_sec).v = 0
     /\ StepCount > 0)
        => IF /\ ~m_in.config.sample_dt.some /\ ~m_in.config.dt.some
              /\ Len(mn.frames) <= 1
           THEN mn.duration = StepCount
           ELSE Tenths(mn.duration) = StepCount * mn.dt

\* C17: a scenario that reports no iterations makes load raise ValueError
\* with no ego state or agent read, and main then samples no perturbation,
\* calls rollout never and writes nothing; rollout is only ever called with
\* steps >= 1, the number of frames loaded.
C17_NoIterationsRejected ==
    /\ (m_in # <<>> /\ m_in.scenario.num_iters <= 0) =>
          /\ mn.pc \in {"start", "raised"}
          /\ mn.pc = "raised" => mn.error = "ValueError"
          /\ mn.reads = 0 /\ mn.frames = <<>>
          /\ ~mn.sampled /\ mn.rollouts = <<>> /\ ~mn.written
    /\ \A i \in 1 .. Len(mn.rollouts) :
          mn.rollouts[i].steps >= 1 /\ mn.rollouts[i].steps = m_in.scenario.num_iters
    /\ mn.written => mn.rollouts # <<>>

\* load has rejected a scenario of zero iterations
C17_Witness ==
    /\ mn.pc = "raised" /\ mn.error = "ValueError"
    /\ m_in.scenario.num_iters = 0
    /\ mn.reads = 0 /\ ~mn.sampled /\ mn.rollouts = <<>> /\ ~mn.written

\* the file name exists under scenes/<scene_token>/
SceneFile(name) == [dir |-> <<"scenes", "scene-abc">>, name |-> name] \in mn.files

---------------------------------------------------------------------------
(* Properties of SceneLoader and MapAPI (SpecMap) *)

\* C18: a constructor called without a provider raises RuntimeError and
\* leaves no object behind; every SceneLoader and MapAPI that exists has its
\* provider, and no load, lane-centerline or off-road call fails for want
\* of one.
C18_ProviderCheckedAtConstruction ==
    /\ [](\A i \in 1 .. Len(objs) : objs[i].provider # "None")
    /\ [](last_call.op \in {"load", "compute_errors", "is_off_road"} =>
            last_call.provider # "None" /\ last_call.error # "TypeError")
    /\ [][(last_call'.op \in {"SceneLoader", "MapAPI"} /\ last_call' # last_call
           /\ last_call'.provider = "None") =>
            (last_call'.error = "RuntimeError" /\ objs' = objs)]_vars
    /\ [][(last_call'.op \in {"SceneLoader", "MapAPI"} /\ objs' # objs) =>
            (/\ last_call'.error = "none" /\ Len(objs') = Len(objs) + 1
             /\ objs'[Len(objs')].cls = last_call'.op)]_vars

\* a SceneLoader exists and has loaded, and a MapAPI() without a provider
\* has just raised
C18_Witness ==
    /\ last_call.op = "MapAPI" /\ last_call.provider = "None"
    /\ last_call.error = "RuntimeError"
    /\ Len(objs) = 1 /\ objs[1].cls = "SceneLoader"

\* C19 (as claimed): when the map object raises during the lane-centerline
\* query of _compute_errors, the error leaves _compute_errors; no errors
\* are returned to the controller or the labeler.
C19_BackendErrorPropagates ==
    (last_call.op = "compute_errors" /\ last_call.result.backend_raised)
        => last_call.error # "none"

\* the footprint lies inside / outside the drivable area
FootprintInside(p) ==
    /\ Drivable.xmin <= PolyMinX(p) /\ PolyMaxX(p) <= Drivable.xmax
    /\ Drivable.ymin <= PolyMinY(p) /\ PolyMaxY(p) <= Drivable.ymax
FootprintOutside(p) ==
    \/ PolyMaxX(p) < Drivable.xmin \/ Drivable.xmax < PolyMinX(p)
    \/ PolyMaxY(p) < Drivable.ymin \/ Drivable.ymax < PolyMinY(p)

\* C20 (as claimed): on a map object with a point-on-road checker or a
\* drivable-area polygon, is_off_road is false for a footprint inside the
\* drivable area and true for one outside it.
C20_OffRoadMatchesDrivableArea ==
    (/\ last_call.op = "is_off_road"
     /\ last_call.result.polygon_xy # <<>>
     /\ backend.checker = "present" \/ backend.drivable = "polygon")
        => /\ FootprintInside(last_call.result.polygon_xy) => ~last_call.result.value
           /\ FootprintOutside(last_call.result.polygon_xy) => last_call.result.value

===========================================================================
